---- MODULE Spec2Model ----
(***************************************************************************)
(* Synchronization of signac jobs and projects (src/signac/sync.py).       *)
(*                                                                         *)
(* Documents are Python mappings.  A nested mapping is an object with an   *)
(* identity: storing it under a key of an in-memory dict stores the        *)
(* reference, so the model keeps a heap of mapping objects.  The object at *)
(* key-position p of a document is named <<owner, p>>, where owner is the  *)
(* document that held it in the initial state; a "map" cell names the      *)
(* owner of the object it refers to (its position is the cell's own).      *)
(***************************************************************************)
EXTENDS Integers, Sequences, FiniteSets, TLC

(* ------------------------------ bounds -------------------------------- *)
\* nesting depth of the documents (key-paths have at most MaxDepth keys)
MaxDepth == 3
\* scalar document values are 1..MaxScalar
MaxScalar == 2
\* number of sync calls in one behaviour
MaxCalls == 2
\* job ids of a project are 1..NJobs
NJobs == 2

(* ----------------------------- documents ------------------------------ *)
Keys == {"a", "b"}
\* iteration order of a mapping's keys (src.items(), src.keys())
KeyOrder == <<"a", "b">>

Projects == {"S1", "S2", "D"}
SrcProjects == {"S1", "S2"}
\* slot 0 of a project is the project document, slot j the document of job j
DocIds == Projects \X (0..NJobs)
JobIds == Projects \X (1..NJobs)
NoDoc == <<"-", 0>>

SeqsUpTo(n) == UNION {[1..k -> Keys] : k \in 0..n}
ObjPaths == SeqsUpTo(MaxDepth - 1)
KeyPaths == SeqsUpTo(MaxDepth) \ {<<>>}

NoneCell == [t |-> "none", v |-> 0, o |-> NoDoc]
ValCell(n) == [t |-> "val", v |-> n, o |-> NoDoc]
MapCell(d) == [t |-> "map", v |-> 0, o |-> d]
EmptyObj == [k \in Keys |-> NoneCell]

IsPrefix(p, q) == Len(p) <= Len(q) /\ SubSeq(q, 1, Len(p)) = p
Suffix(p, q) == SubSeq(q, Len(p) + 1, Len(q))

\* owner of the object reached from object <<o, p>> along the keys q
RECURSIVE OwnerAt(_, _, _, _)
OwnerAt(h, o, p, q) ==
    IF q = <<>> THEN o
    ELSE LET c == h[<<o, p>>][Head(q)]
         IN IF c.t = "map" THEN OwnerAt(h, c.o, Append(p, Head(q)), Tail(q))
            ELSE NoDoc

\* the cell a document holds at key-path kp ("none" when the path is absent)
CellAt(h, d, kp) ==
    LET o == OwnerAt(h, d, <<>>, SubSeq(kp, 1, Len(kp) - 1))
    IN IF o = NoDoc THEN NoneCell ELSE h[<<o, SubSeq(kp, 1, Len(kp) - 1)>>][kp[Len(kp)]]

\* a document by value: 0 absent, -1 a mapping, n a scalar
Code(c) == IF c.t = "none" THEN 0 ELSE IF c.t = "map" THEN -1 ELSE c.v
DocVal(h, d) == [kp \in KeyPaths |-> Code(CellAt(h, d, kp))]
DocLen(h, d) == Cardinality({k \in Keys : h[<<d, <<>>>>][k].t # "none"})

\* Python's == on two mappings at the same position, and on two values
RECURSIVE ObjEq(_, _, _, _)
ObjEq(h, o1, o2, p) ==
    \A k \in Keys :
        LET c1 == h[<<o1, p>>][k]
            c2 == h[<<o2, p>>][k]
        IN /\ c1.t = c2.t
           /\ c1.t = "val" => c1.v = c2.v
           /\ c1.t = "map" => ObjEq(h, c1.o, c2.o, Append(p, k))

CellEq(h, c1, c2, p) ==
    /\ c1.t = c2.t
    /\ c1.t = "val" => c1.v = c2.v
    /\ c1.t = "map" => ObjEq(h, c1.o, c2.o, p)

\* an object's cells with every reference pointing at a copy owned by `to`
Rehome(obj, to) ==
    [k \in Keys |-> IF obj[k].t = "map" THEN MapCell(to) ELSE obj[k]]

\* a deep copy of the subtree under object <<fo, p>> of heap hs into the
\* objects of owner `to` in heap h (copy.deepcopy, json serialization)
CopySub(h, hs, fo, to, p) ==
    [x \in DOMAIN h |->
        IF x[1] = to /\ IsPrefix(p, x[2])
        THEN LET o == OwnerAt(hs, fo, p, Suffix(p, x[2]))
             IN IF o = NoDoc THEN EmptyObj ELSE Rehome(hs[<<o, x[2]>>], to)
        ELSE h[x]]

(* --------------------------- key strategies --------------------------- *)
\* a key-strategy: None, a function of the key, or a regular expression
\* (re.match anchors at the start of the dotted key)
KeyStrategy(ks, key) ==
    CASE ks.kind = "true" -> TRUE
      [] ks.kind = "false" -> FALSE
      [] ks.kind = "regex" -> key # <<>> /\ Head(key) = ks.pat
      [] ks.kind = "contains" -> \E i \in 1..Len(key) : key[i] = ks.pat
      [] OTHER -> FALSE

(* ----------------------- _DocProxy.__setitem__ ------------------------ *)
\* dst[key] = value; dst is the _DocProxy at the top level only: the nested
\* mappings that _DocProxy.__getitem__ returns are the document's own
\* objects, so the dry_run guard applies at position <<>> alone
SetItem(st, c, do, pos, k, sc) ==
    IF pos = <<>> /\ c.dry THEN st
    ELSE IF c.kind = "mem" \/ sc.t # "map"
    THEN [st EXCEPT !.h[<<do, pos>>][k] = sc, !.wrote = TRUE]
    ELSE [st EXCEPT
            !.h = [CopySub(st.h, st.h, sc.o, do, Append(pos, k))
                     EXCEPT ![<<do, pos>>][k] = MapCell(do)],
            !.wrote = TRUE]

(* ------------------------ DocSync.ByKey.__call__ ---------------------- *)
RECURSIVE ByKeyCall(_, _, _, _, _, _)
RECURSIVE ByKeyLoop(_, _, _, _, _, _, _)
\* st = [h, sk, vis, asked, err, wrote]; so/do own the source and the
\* destination mapping at position pos; root is the prefix the code passes
ByKeyCall(st, c, so, do, pos, root) ==
    IF ObjEq(st.h, so, do, pos) THEN st
    ELSE LET s1 == ByKeyLoop(st, c, so, do, pos, root, 1)
         IN IF s1.err = "none" /\ s1.sk # {} /\ root = <<>> /\ c.ks.kind = "none"
            THEN [s1 EXCEPT !.err = "DocumentSyncConflict"]
            ELSE s1

ByKeyLoop(st, c, so, do, pos, root, i) ==
    IF i > Len(KeyOrder) \/ st.err # "none" THEN st
    ELSE LET k == KeyOrder[i]
             sc == st.h[<<so, pos>>][k]
             dc == st.h[<<do, pos>>][k]
             s0 == [st EXCEPT !.vis = @ \cup {Append(pos, k)}]
             s1 == IF sc.t = "none" THEN st
                   ELSE IF dc.t # "none" /\ CellEq(st.h, dc, sc, Append(pos, k))
                   THEN s0
                   ELSE IF dc.t # "none" /\ sc.t = "map"
                   THEN IF dc.t = "map"
                        THEN ByKeyCall(s0, c, sc.o, dc.o, Append(pos, k), <<k>>)
                        \* dst[key] is no mapping: `key in dst` raises as soon
                        \* as the source mapping has a key to iterate over
                        ELSE IF \E k2 \in Keys : st.h[<<sc.o, Append(pos, k)>>][k2].t # "none"
                        THEN [s0 EXCEPT !.err = "TypeError"]
                        ELSE s0
                   ELSE IF dc.t # "none" /\ c.ks.kind = "none"
                   THEN [s0 EXCEPT !.sk = @ \cup {Append(root, k)}]
                   ELSE IF dc.t # "none" /\ ~KeyStrategy(c.ks, Append(root, k))
                   THEN [s0 EXCEPT !.sk = @ \cup {Append(root, k)},
                                   !.asked = @ \cup {<<Append(pos, k), Append(root, k)>>}]
                   ELSE SetItem(
                          IF dc.t # "none"
                          THEN [s0 EXCEPT !.asked = @ \cup {<<Append(pos, k), Append(root, k)>>}]
                          ELSE s0,
                          c, do, pos, k, sc)
         IN ByKeyLoop(s1, c, so, do, pos, root, i + 1)

(* --------------------------- DocSync.update --------------------------- *)
RECURSIVE UpdateLoop(_, _, _, _, _)
UpdateLoop(st, c, so, do, i) ==
    IF i > Len(KeyOrder) THEN st
    ELSE LET k == KeyOrder[i]
             sc == st.h[<<so, <<>>>>][k]
         IN UpdateLoop(IF sc.t = "none" THEN st ELSE SetItem(st, c, do, <<>>, k, sc),
                       c, so, do, i + 1)

(* ------------------------------- world -------------------------------- *)
\* The state the operations act on, as one record:
\*   heap     mapping objects of all documents
\*   docfile  whether a document's backing file exists (os.path.isfile(fn))
\*   bak      whether the backup duplicate fn + '~' of that file exists
\*   mat      whether a job is part of its project (its workspace exists)
\*   files    the user files of each job workspace
\*   sk       skipped_keys of the caller's DocSync.ByKey object
\*   sch      each project's detected state point schema

(* ------------------------ create_doc_backup --------------------------- *)
RunDocSync(st, c, sd, dd) ==
    IF c.doc = "update" THEN UpdateLoop(st, c, sd, dd, 1)
    ELSE ByKeyCall(st, c, sd, dd, <<>>, <<>>)

\* create_doc_backup keeps its backup in memory for an empty document and
\* for one with no file behind it
InMemoryBackup(w, c, dd) == DocLen(w.heap, dd) = 0 \/ c.kind = "mem" \/ ~w.docfile[dd]

\* leaving the `with` block with st, the outcome of doc_sync: the document
\* is kept as doc_sync left it, or rolled back when doc_sync raised
DocBackupExit(w, c, dd, st) ==
    LET inmem == InMemoryBackup(w, c, dd)
        restored == CopySub(st.h, w.heap, dd, dd, <<>>)
        h1 == IF st.err = "none" THEN st.h
              ELSE IF inmem
              \* proxy.clear() is not guarded by dry_run, proxy.update() is
              THEN IF c.dry THEN [st.h EXCEPT ![<<dd, <<>>>>] = EmptyObj] ELSE restored
              \* create_backup: self.copy(path_backup, path) through the proxy
              ELSE IF c.dry THEN st.h ELSE restored
    IN [w |-> [w EXCEPT !.heap = h1,
                        !.sk = IF c.fresh THEN @ ELSE st.sk,
                        !.docfile[dd] = @ \/ (c.kind = "file" /\ st.wrote)],
        err |-> st.err,
        keys |-> IF st.err = "DocumentSyncConflict" THEN st.sk ELSE {},
        vis |-> st.vis, asked |-> st.asked, skipped |-> st.sk,
        bcopies |-> IF inmem THEN 0 ELSE IF st.err = "none" THEN 1 ELSE 2]

\* `with proxy.create_doc_backup(dst.document) as dst_proxy: doc_sync(...)`
\* returns [w, err, keys, vis, asked, skipped, bcopies]; bcopies counts the
\* proxy.copy calls create_backup makes for the duplicate fn + '~'
CreateDocBackup(w, c, sd, dd) ==
    IF ~InMemoryBackup(w, c, dd) /\ w.bak[dd]
    THEN [w |-> w, err |-> "RuntimeError", keys |-> {}, vis |-> {}, asked |-> {},
          skipped |-> {}, bcopies |-> 0]
    ELSE DocBackupExit(w, c, dd,
                       RunDocSync([h |-> w.heap, sk |-> IF c.fresh THEN {} ELSE w.sk,
                                   vis |-> {}, asked |-> {}, err |-> "none",
                                   wrote |-> FALSE],
                                  c, sd, dd))

(* --------------------------- create_backup ---------------------------- *)
\* the duplicate path + '~' of a guarded document file: none, a copy made
\* by create_backup (h: the objects copied), or one left by an earlier run
NoDup == [tag |-> "none", h |-> <<>>]
StaleDup == [tag |-> "stale", h |-> <<>>]

\* a backup that starts whether a duplicate exists or not
NeverRefused(w, c, dd) == FALSE
\* line 221: a file backup is asked for and path + '~' is there already
BackupRefused(w, c, dd) == ~InMemoryBackup(w, c, dd) /\ w.bak[dd]

\* line 226, self.copy(path, path_backup): the duplicate after it
BackupTaken(w, c, dd, dup) == IF c.dry THEN dup ELSE [tag |-> "copy", h |-> w.heap]

\* a backup that leaves its duplicate behind
BackupLeft(w, c, dd, mode) == w
\* line 234, self.remove(path_backup), in the finally clause of create_backup
BackupRemoved(w, c, dd, mode) ==
    IF mode = "file" /\ ~c.dry THEN [w EXCEPT !.bak[dd] = FALSE] ELSE w

(* ------------------------------- files -------------------------------- *)
FN_MANIFEST == "signac_statepoint.json"
FN_DOCUMENT == "signac_job_document.json"
TopNames == {"d", "f", "tags"}
SubNames == {"f", "g"}
DirNames == {"d"}
FPaths == {<<n>> : n \in TopNames} \cup {<<d, n>> : d \in DirNames, n \in SubNames}
\* dircmp sorts its listings
NameOrder == <<"d", "f", "g", FN_DOCUMENT, FN_MANIFEST, "tags">>
\* the names dircmp drops from both listings (its default `ignore` list)
DEFAULT_IGNORES == {"tags"}
Mtimes == {1, 2}
\* the modification time shutil.copy gives the copy: later than any other
NowTime == Cardinality(Mtimes) + 1

NoFile == [t |-> "none", c |-> 0, m |-> 0]
NameChars ==
    [n \in {"d", "f", "g", "tags", FN_DOCUMENT, FN_MANIFEST} |->
        CASE n = "tags" -> <<"t", "a", "g", "s">>
          [] OTHER -> <<n>>]
\* re.match(p, fn): the pattern matches a prefix of the name
ReMatch(p, fn) == IsPrefix(NameChars[p], NameChars[fn])

\* the entry named n in directory sd of job j's workspace
Entry(w, j, sd, n) ==
    IF ~w.mat[j] THEN NoFile
    ELSE IF sd = <<>> /\ n = FN_MANIFEST THEN [t |-> "file", c |-> j[2], m |-> 0]
    ELSE IF sd = <<>> /\ n = FN_DOCUMENT
    THEN IF w.docfile[j] THEN [t |-> "file", c |-> 0, m |-> 0] ELSE NoFile
    ELSE IF Append(sd, n) \in FPaths THEN w.files[j][Append(sd, n)]
    ELSE NoFile

\* dircmp.phase0: the listing without the hidden and ignored names
Listed(w, j, sd, n) == n \notin DEFAULT_IGNORES /\ Entry(w, j, sd, n).t # "none"
LeftOnly(w, sj, dj, sd, n) == Listed(w, sj, sd, n) /\ ~Listed(w, dj, sd, n)
Common(w, sj, dj, sd, n) == Listed(w, sj, sd, n) /\ Listed(w, dj, sd, n)
\* a comparison by the os.stat signature alone, with no look at the content
SameSignature(w, c, sj, dj, sd, n) ==
    Entry(w, sj, sd, n).m = Entry(w, dj, sd, n).m
\* a comparison of the content, whatever the deep flag is
SameContent(w, c, sj, dj, sd, n) ==
    IF sd = <<>> /\ n = FN_DOCUMENT THEN DocVal(w.heap, sj) = DocVal(w.heap, dj)
    ELSE Entry(w, sj, sd, n).c = Entry(w, dj, sd, n).c
\* filecmp.cmp: shallow compares the os.stat signatures first (files of one
\* size: the signature is the modification time); document files by content
SameFile(w, c, sj, dj, sd, n) ==
    LET e1 == Entry(w, sj, sd, n)
        e2 == Entry(w, dj, sd, n)
    IN IF sd = <<>> /\ n = FN_DOCUMENT THEN DocVal(w.heap, sj) = DocVal(w.heap, dj)
       ELSE (~c.deep /\ n # FN_MANIFEST /\ e1.m = e2.m) \/ e1.c = e2.c
DiffFile(w, c, sj, dj, sd, n) ==
    /\ Common(w, sj, dj, sd, n)
    /\ Entry(w, sj, sd, n).t = "file" /\ Entry(w, dj, sd, n).t = "file"
    /\ ~SameFile(w, c, sj, dj, sd, n)
CommonDir(w, sj, dj, sd, n) ==
    /\ Common(w, sj, dj, sd, n)
    /\ Entry(w, sj, sd, n).t = "dir" /\ Entry(w, dj, sd, n).t = "dir"

\* the caller's patterns alone
UserExcludes(c) == c.exclude
\* the manifest and the document excluded whatever doc_sync is
ExcludesDocument(c) == c.exclude \cup {FN_MANIFEST, FN_DOCUMENT}
\* sync_jobs: exclude + [FN_MANIFEST] + [FN_DOCUMENT unless doc_sync is COPY]
Excludes(c) ==
    c.exclude \cup {FN_MANIFEST} \cup (IF c.doc = "COPY" THEN {} ELSE {FN_DOCUMENT})
Excluded(c, n) == \E p \in Excludes(c) : ReMatch(p, n)

\* FileSync.always / never / update
Strategy(w, c, sj, dj, path) ==
    CASE c.strategy = "always" -> TRUE
      [] c.strategy = "never" -> FALSE
      [] c.strategy = "update" ->
            Entry(w, sj, SubSeq(path, 1, Len(path) - 1), path[Len(path)]).m
              > Entry(w, dj, SubSeq(path, 1, Len(path) - 1), path[Len(path)]).m
      [] OTHER -> FALSE

\* a copy that is logged and not made
CopyLoggedOnly(fs, c, sj, dj, path) == [fs EXCEPT !.copied = @ \cup {path}]
\* _FileModifyProxy.copy(fn_src, fn_dst), fs = [w, err, efile, epath, copied, fasked]
ProxyCopy(fs, c, sj, dj, path) ==
    LET w == fs.w
        w1 == IF c.dry THEN w
              ELSE IF path = <<FN_DOCUMENT>>
              THEN [w EXCEPT !.heap = CopySub(w.heap, w.heap, sj, dj, <<>>),
                             !.docfile[dj] = TRUE]
              ELSE [w EXCEPT !.files[dj][path] = [w.files[sj][path] EXCEPT !.m = NowTime]]
    IN [fs EXCEPT !.w = w1, !.copied = @ \cup {path}]

\* a tree copy that makes the destination workspace a mirror of the source's
MirrorTree(fs, c, sj, dj, path) ==
    [fs EXCEPT !.w.files[dj] = fs.w.files[sj], !.copied = @ \cup {path}]
\* _FileModifyProxy.copytree(fn_src, fn_dst): shutil.copytree copies every
\* entry below the directory and keeps the modification times
ProxyCopyTree(fs, c, sj, dj, path) ==
    LET w == fs.w
        w1 == IF c.dry THEN w
              ELSE [w EXCEPT !.files[dj] =
                       [q \in FPaths |-> IF IsPrefix(path, q) THEN w.files[sj][q] ELSE @[q]]]
    IN [fs EXCEPT !.w = w1, !.copied = @ \cup {path}]

(* ----------------------- _sync_job_workspaces ------------------------- *)
RECURSIVE LeftOnlyLoop(_, _, _, _, _, _, _)
\* for fn in diff.left_only (w0: the listing the dircmp object was built on)
LeftOnlyLoop(fs, w0, c, sj, dj, sd, i) ==
    IF i > Len(NameOrder) THEN fs
    ELSE LET n == NameOrder[i]
             f1 == IF ~LeftOnly(w0, sj, dj, sd, n) \/ Excluded(c, n) THEN fs
                   ELSE IF Entry(w0, sj, sd, n).t = "file"
                   THEN ProxyCopy(fs, c, sj, dj, Append(sd, n))
                   ELSE ProxyCopyTree(fs, c, sj, dj, Append(sd, n))
         IN LeftOnlyLoop(f1, w0, c, sj, dj, sd, i + 1)

RECURSIVE DiffFilesLoop(_, _, _, _, _, _, _)
\* for fn in diff.diff_files
DiffFilesLoop(fs, w0, c, sj, dj, sd, i) ==
    IF i > Len(NameOrder) \/ fs.err # "none" THEN fs
    ELSE LET n == NameOrder[i]
             f1 == IF ~DiffFile(w0, c, sj, dj, sd, n) \/ Excluded(c, n) THEN fs
                   ELSE IF c.strategy = "none"
                   THEN [fs EXCEPT !.err = "FileSyncConflict", !.efile = <<n>>,
                                   !.epath = Append(sd, n)]
                   ELSE IF Strategy(fs.w, c, sj, dj, Append(sd, n))
                   THEN ProxyCopy([fs EXCEPT !.fasked = @ \cup {Append(sd, n)}],
                                  c, sj, dj, Append(sd, n))
                   ELSE [fs EXCEPT !.fasked = @ \cup {Append(sd, n)}]
         IN DiffFilesLoop(f1, w0, c, sj, dj, sd, i + 1)

RECURSIVE SyncJobWorkspaces(_, _, _, _, _)
RECURSIVE SubdirsLoop(_, _, _, _, _, _, _)
\* for _subdir in diff.subdirs
SubdirsLoop(fs, w0, c, sj, dj, sd, i) ==
    IF i > Len(NameOrder) \/ fs.err # "none" THEN fs
    ELSE LET n == NameOrder[i]
             f1 == IF CommonDir(w0, sj, dj, sd, n)
                   THEN SyncJobWorkspaces(fs, c, sj, dj, Append(sd, n))
                   ELSE fs
         IN SubdirsLoop(f1, w0, c, sj, dj, sd, i + 1)

SyncJobWorkspaces(fs, c, sj, dj, sd) ==
    LET w0 == fs.w
        f1 == LeftOnlyLoop(fs, w0, c, sj, dj, sd, 1)
        f2 == DiffFilesLoop(f1, w0, c, sj, dj, sd, 1)
    IN SubdirsLoop(f2, w0, c, sj, dj, sd, 1)

(* ------------------------------ sync_jobs ----------------------------- *)
\* the result of a call: the world after it and what the call did
Result(w, err) ==
    [w |-> w, err |-> err, keys |-> {}, efile |-> <<>>, epath |-> <<>>, vis |-> {},
     asked |-> {}, copied |-> {}, fasked |-> {}, cloned |-> {}, synced |-> {},
     skipped |-> {}, bcopies |-> 0]

\* the outcome dr of the document synchronization, added to the call's
DocResult(r, dr) ==
    [r EXCEPT !.w = dr.w, !.err = dr.err, !.keys = dr.keys, !.vis = dr.vis,
              !.asked = dr.asked, !.skipped = dr.skipped, !.bcopies = dr.bcopies]

\* the outcome r with the error err of the workspace walk, if it raised
KeepError(r, err) == IF err = "none" THEN r ELSE [r EXCEPT !.err = err]
\* the documents synchronized whether the workspace walk raised or not
SyncJobDocumentsAnyway(fs, c, sj, dj) ==
    IF c.doc \in {"NO_SYNC", "COPY"}
    THEN [Result(fs.w, fs.err) EXCEPT !.efile = fs.efile, !.epath = fs.epath,
                                      !.copied = fs.copied, !.fasked = fs.fasked]
    ELSE KeepError(DocResult([Result(fs.w, fs.err) EXCEPT
                                 !.efile = fs.efile, !.epath = fs.epath,
                                 !.copied = fs.copied, !.fasked = fs.fasked],
                             CreateDocBackup(fs.w, c, sj, dj)),
                   fs.err)

\* sync_jobs after the workspaces are synchronized, fs the outcome of that
SyncJobDocuments(fs, c, sj, dj) ==
    LET r1 == [Result(fs.w, fs.err) EXCEPT !.efile = fs.efile, !.epath = fs.epath,
                                          !.copied = fs.copied, !.fasked = fs.fasked]
    IN IF fs.err # "none" \/ c.doc \in {"NO_SYNC", "COPY"} THEN r1
       ELSE DocResult(r1, CreateDocBackup(fs.w, c, sj, dj))

\* sync_jobs with no test of the two workspaces' identity
SyncJobsUnchecked(w, c, sj, dj) ==
    SyncJobDocuments(
      SyncJobWorkspaces(
        [w |-> [w EXCEPT !.mat[dj] = TRUE], err |-> "none", efile |-> <<>>,
         epath |-> <<>>, copied |-> {}, fasked |-> {}],
        c, sj, dj, <<>>),
      c, sj, dj)

\* sync_jobs with no test of whether the source job is in its project
SyncJobsOfAnySource(w, c, sj, dj) ==
    IF sj = dj THEN Result(w, "ValueError")
    ELSE SyncJobDocuments(
           SyncJobWorkspaces(
             [w |-> [w EXCEPT !.mat[dj] = TRUE], err |-> "none", efile |-> <<>>,
              epath |-> <<>>, copied |-> {}, fasked |-> {}],
             c, sj, dj, <<>>),
           c, sj, dj)

SyncJobs(w, c, sj, dj) ==
    IF sj = dj THEN Result(w, "ValueError")
    ELSE IF ~w.mat[sj] THEN Result(w, "none")
    ELSE SyncJobDocuments(
           SyncJobWorkspaces(
             \* dst.init(), a direct call that the proxy does not guard
             [w |-> [w EXCEPT !.mat[dj] = TRUE], err |-> "none", efile |-> <<>>,
              epath |-> <<>>, copied |-> {}, fasked |-> {}],
             c, sj, dj, <<>>),
           c, sj, dj)

(* ---------------------------- Project.clone --------------------------- *)
\* a clone that creates the job and copies none of its files
CloneBare(w, c, sj, dj) ==
    [w EXCEPT !.mat[dj] = TRUE,
              !.docfile[dj] = w.docfile[sj],
              !.heap = IF c.kind = "file" THEN CopySub(w.heap, w.heap, sj, dj, <<>>) ELSE @]
\* destination.clone(src_job): the whole workspace of the job is copied,
\* its document file included
Clone(w, c, sj, dj) ==
    [w EXCEPT !.mat[dj] = TRUE,
              !.files[dj] = w.files[sj],
              !.docfile[dj] = w.docfile[sj],
              !.bak[dj] = w.bak[sj],
              !.heap = IF c.kind = "file" THEN CopySub(w.heap, w.heap, sj, dj, <<>>) ELSE @]

(* ---------------------------- sync_projects --------------------------- *)
\* count[2] += 1 and the log of the job's sync r, added to the project's pr
Synchronized(pr, r, j) ==
    [r EXCEPT !.cloned = pr.cloned,
              !.synced = IF r.err = "none" THEN pr.synced \cup {j} ELSE pr.synced,
              !.copied = pr.copied \cup {<<j>> \o q : q \in r.copied},
              !.bcopies = pr.bcopies + r.bcopies]

\* _clone_or_sync(src_job) on pr = a Result
CloneOrSync(pr, c, sj, dj) ==
    IF ~pr.w.mat[dj]
    THEN [pr EXCEPT !.w = Clone(pr.w, c, sj, dj), !.cloned = @ \cup {sj[2]}]
    ELSE Synchronized(pr, SyncJobs(pr.w, c, sj, dj), sj[2])

\* the outcome r of a job, with the error of an earlier job kept
FirstError(pr, r) == IF pr.err = "none" THEN r ELSE [r EXCEPT !.err = pr.err]
RECURSIVE JobsLoopAll(_, _, _, _, _, _)
\* a loop that goes on to the last job whatever the jobs raise
JobsLoopAll(pr, jobs, c, sp, dp, j) ==
    IF j > NJobs THEN pr
    ELSE JobsLoopAll(IF j \in jobs
                     THEN FirstError(pr, CloneOrSync([pr EXCEPT !.err = "none"], c,
                                                     <<sp, j>>, <<dp, j>>))
                     ELSE pr,
                     jobs, c, sp, dp, j + 1)

RECURSIVE JobsLoop(_, _, _, _, _, _)
\* for i, src_job in enumerate(jobs_to_sync): count[_clone_or_sync(src_job)] += 1
JobsLoop(pr, jobs, c, sp, dp, j) ==
    IF j > NJobs \/ pr.err # "none" THEN pr
    ELSE JobsLoop(IF j \in jobs THEN CloneOrSync(pr, c, <<sp, j>>, <<dp, j>>) ELSE pr,
                  jobs, c, sp, dp, j + 1)

\* a test of the source's schema against the destination's alone
SchemaNotCovered(w, sp, dp) == w.sch[sp] \ w.sch[dp] # {}
SchemaConflict(w, sp, dp) ==
    /\ w.sch[dp] # {} /\ w.sch[sp] # {} /\ w.sch[sp] # w.sch[dp]
    /\ (w.sch[sp] \ w.sch[dp] # {} \/ w.sch[dp] \ w.sch[sp] # {})

\* every job of the source, whatever the selection
AllSourceJobs(w, c, sp) == {j \in 1..NJobs : w.mat[<<sp, j>>]}
\* every selected id, whether the source has a job of that id or not
SelectedIds(w, c, sp) == {j \in 1..NJobs : c.selall \/ j \in c.sel}
\* jobs_to_sync: every job of the source, or those whose id is selected
JobsToSync(w, c, sp) ==
    {j \in 1..NJobs : w.mat[<<sp, j>>] /\ (c.selall \/ j \in c.sel)}

\* the project documents, lines 558-561
SyncProjectDocuments(w, c, sp, dp) ==
    IF c.doc \in {"NO_SYNC", "COPY"} THEN Result(w, "none")
    ELSE DocResult(Result(w, "none"), CreateDocBackup(w, c, sp, dp))

\* the caller's DocSync.ByKey object after the call
KeepSkipped(pr, w, c) == [pr EXCEPT !.w.sk = IF c.fresh THEN w.sk ELSE @]

\* sequential mode; one DocSync.ByKey object serves the project document
\* and every job of the call
SyncProjects(w, c, sp, dp) ==
    IF sp = dp THEN Result(w, "ValueError")
    ELSE IF c.check_schema /\ SchemaConflict(w, sp, dp) THEN Result(w, "SchemaSyncConflict")
    ELSE KeepSkipped(
           JobsLoop(SyncProjectDocuments(IF c.fresh THEN [w EXCEPT !.sk = {}] ELSE w,
                                         [c EXCEPT !.fresh = FALSE], <<sp, 0>>, <<dp, 0>>),
                    JobsToSync(w, c, sp), [c EXCEPT !.fresh = FALSE], sp, dp, 1),
           w, c)

(* ----------------------- sync_projects, parallel ---------------------- *)
\* sync_projects up to the dispatch of the jobs: the identity test, the
\* schema test and the project documents, all made by the calling thread
ProjectPrologue(w, c, sp, dp) ==
    IF sp = dp THEN Result(w, "ValueError")
    ELSE IF c.check_schema /\ SchemaConflict(w, sp, dp) THEN Result(w, "SchemaSyncConflict")
    ELSE SyncProjectDocuments(IF c.fresh THEN [w EXCEPT !.sk = {}] ELSE w,
                              [c EXCEPT !.fresh = FALSE], <<sp, 0>>, <<dp, 0>>)

\* ByKey.__call__ on the two documents up to the end of its loop
ByKeyItems(st, c, so, do) ==
    IF ObjEq(st.h, so, do, <<>>) THEN st ELSE ByKeyLoop(st, c, so, do, <<>>, <<>>, 1)
\* lines 348-350 of the call at the root: self.skipped_keys as it is by then
ByKeyRaise(st, c, differ) ==
    IF differ /\ st.err = "none" /\ st.sk # {} /\ c.ks.kind = "none"
    THEN [st EXCEPT !.err = "DocumentSyncConflict"]
    ELSE st

\* one _clone_or_sync(src_job) handed to pool.imap.  st: queued, running,
\* ok, failed, or dropped (never started: terminate() empties the queue);
\* ret the value it returns; final: nothing of the call is left to run;
\* differ: ByKey found src != dst; pre: the heap at create_doc_backup
Task(st, ret, final, differ, wrote, pre, err, fs) ==
    [st |-> st, ret |-> ret, final |-> final, differ |-> differ, wrote |-> wrote,
     pre |-> pre, err |-> err, keys |-> {}, efile |-> fs.efile, epath |-> fs.epath,
     copied |-> fs.copied, bcopies |-> 0]
NoFileLog == [efile |-> <<>>, epath |-> <<>>, copied |-> {}]

\* the document traversal of the task is made: st its outcome
TaskTraversed(fs, st, differ) ==
    [w |-> [fs.w EXCEPT !.heap = st.h, !.sk = st.sk],
     t |-> Task("running", 2, FALSE, differ, st.wrote, fs.w.heap, st.err, fs)]

\* sync_jobs in a worker after its workspace walk fs, up to the end of the
\* loop of doc_sync
TaskMerge(fs, c, sj, dj) ==
    IF fs.err # "none" \/ c.doc \in {"NO_SYNC", "COPY"}
    THEN [w |-> fs.w, t |-> Task("running", 2, TRUE, FALSE, FALSE, fs.w.heap, fs.err, fs)]
    ELSE IF ~InMemoryBackup(fs.w, c, dj) /\ fs.w.bak[dj]
    THEN [w |-> fs.w,
          t |-> Task("running", 2, TRUE, FALSE, FALSE, fs.w.heap, "RuntimeError", fs)]
    ELSE TaskTraversed(
           fs,
           IF c.doc = "update"
           THEN UpdateLoop([h |-> fs.w.heap, sk |-> fs.w.sk, vis |-> {}, asked |-> {},
                            err |-> "none", wrote |-> FALSE], c, sj, dj, 1)
           ELSE ByKeyItems([h |-> fs.w.heap, sk |-> fs.w.sk, vis |-> {}, asked |-> {},
                            err |-> "none", wrote |-> FALSE], c, sj, dj),
           c.doc = "bykey" /\ ~ObjEq(fs.w.heap, sj, dj, <<>>))

\* a worker takes the task: destination.clone, or sync_jobs as far as the
\* end of the document traversal
TaskBegin(w, c, sj, dj) ==
    IF ~w.mat[dj]
    THEN [w |-> Clone(w, c, sj, dj),
          t |-> Task("running", 1, TRUE, FALSE, FALSE, w.heap, "none", NoFileLog)]
    ELSE TaskMerge(
           SyncJobWorkspaces(
             [w |-> [w EXCEPT !.mat[dj] = TRUE], err |-> "none", efile |-> <<>>,
              epath |-> <<>>, copied |-> {}, fasked |-> {}],
             c, sj, dj, <<>>),
           c, sj, dj)

\* the task has left create_doc_backup with dr
TaskExit(t, dr) ==
    [w |-> dr.w,
     t |-> [t EXCEPT !.st = IF dr.err = "none" THEN "ok" ELSE "failed", !.final = TRUE,
                     !.err = dr.err, !.keys = dr.keys, !.bcopies = dr.bcopies]]

\* the rest of the task: the test of skipped_keys and the exit of
\* create_doc_backup, on the world as the other workers have left it
TaskEnd(w, c, dj, t) ==
    IF t.final
    THEN [w |-> w, t |-> [t EXCEPT !.st = IF t.err = "none" THEN "ok" ELSE "failed"]]
    ELSE TaskExit(t, DocBackupExit([w EXCEPT !.heap = t.pre], c, dj,
                                   ByKeyRaise([h |-> w.heap, sk |-> w.sk, vis |-> {},
                                               asked |-> {}, err |-> t.err,
                                               wrote |-> t.wrote], c, t.differ)))

\* a count that forgets what it has counted before
CountedAnew(p, j) ==
    [p EXCEPT !.got = @ \cup {j},
              !.cloned = IF p.tk[j].ret = 1 THEN {j} ELSE @,
              !.synced = IF p.tk[j].ret = 2 THEN {j} ELSE @]
\* count[ret] += 1 in the loop over pool.imap, for the result of job j
Counted(p, j) ==
    [p EXCEPT !.got = @ \cup {j},
              !.cloned = IF p.tk[j].ret = 1 THEN @ \cup {j} ELSE @,
              !.synced = IF p.tk[j].ret = 2 THEN @ \cup {j} ELSE @]

(* ---------------------------- FileSync.Ask ---------------------------- *)
\* the relative paths the strategy is called with, in the order of the walk
AskNames == {<<"f">>, <<"d", "f">>}
AskOrder == <<<<"f">>, <<"d", "f">>>>
\* the next path of the set s that the walk of a job reaches
RECURSIVE NextName(_, _)
NextName(s, i) == IF AskOrder[i] \in s THEN AskOrder[i] ELSE NextName(s, i + 1)

\* `fn in self.yes`, `fn in self.no`: the decision is cached
AskCached(a, fn) == fn \in a.yes \cup a.no
\* the cached decision: self.yes is looked at first
AskDecision(a, fn) == fn \in a.yes
\* thread t gets decision d for fn and goes on with the walk of its job
AskReturns(a, t, fn, d) ==
    [a EXCEPT !.said = @ \cup {<<fn, d>>},
              !.copied = IF d THEN @ \cup {<<a.thr[t].job, fn>>} ELSE @,
              !.todo[a.thr[t].job] = @ \ {fn},
              !.thr[t] = [@ EXCEPT !.pc = "walk"]]
\* query_yes_no has returned overwrite: self.yes.add(fn) or self.no.add(fn)
AskAnswered(a, t, fn, overwrite) ==
    AskReturns([a EXCEPT !.yes = IF overwrite THEN @ \cup {fn} ELSE @,
                         !.no = IF overwrite THEN @ ELSE @ \cup {fn}],
               t, fn, overwrite)
\* Ask.__call__ as far as the call of query_yes_no
AskCalled(a, t, fn) ==
    IF AskCached(a, fn) THEN AskReturns(a, t, fn, AskDecision(a, fn))
    ELSE [a EXCEPT !.prompts[fn] = @ + 1, !.thr[t] = [@ EXCEPT !.pc = "prompt", !.fn = fn]]

(* ------------------------------- state -------------------------------- *)
VARIABLES heap, docfile, bak, mat, files, sk, sch, opt, last, ncalls, par, ask, guard
vars == <<heap, docfile, bak, mat, files, sk, sch, opt, last, ncalls, par, ask, guard>>

World ==
    [heap |-> heap, docfile |-> docfile, bak |-> bak, mat |-> mat, files |-> files,
     sk |-> sk, sch |-> sch]

\* the call just made: its arguments, the world before it and its outcome
Called(op, src, dst, pre, r) ==
    [op |-> op, src |-> src, dst |-> dst, pre |-> pre, err |-> r.err, keys |-> r.keys,
     efile |-> r.efile, epath |-> r.epath, vis |-> r.vis, asked |-> r.asked,
     copied |-> r.copied, fasked |-> r.fasked, cloned |-> r.cloned, synced |-> r.synced,
     skipped |-> r.skipped, bcopies |-> r.bcopies]

Becomes(r) ==
    /\ heap' = r.w.heap
    /\ docfile' = r.w.docfile
    /\ bak' = r.w.bak
    /\ mat' = r.w.mat
    /\ files' = r.w.files
    /\ sk' = r.w.sk
    /\ sch' = r.w.sch

\* a call made: its effects and the record of it
Returns(op, src, dst, r) ==
    /\ Becomes(r)
    /\ last' = Called(op, src, dst, World, r)

\* dst_job.sync(src_job, ...) for job j of a source project
SyncJobsCall(sp, j) ==
    /\ ncalls < opt.calls
    /\ opt.op = "sync_jobs"
    /\ Returns("sync_jobs", <<sp, j>>, <<"D", j>>,
               SyncJobs(World, opt, <<sp, j>>, <<"D", j>>))
    /\ ncalls' = ncalls + 1
    /\ UNCHANGED <<opt, par, ask, guard>>

\* destination.sync(source, ...)
SyncProjectsCall(sp) ==
    /\ ncalls < opt.calls
    /\ opt.op = "sync_projects" /\ opt.parallel = 0
    /\ Returns("sync_projects", <<sp, 0>>, <<"D", 0>>, SyncProjects(World, opt, sp, "D"))
    /\ ncalls' = ncalls + 1
    /\ UNCHANGED <<opt, par, ask, guard>>

\* dst_job.sync(src_job, ...) for two jobs of different ids
SyncJobsAcross(sp, j, k) ==
    /\ ncalls < opt.calls
    /\ opt.op = "sync_jobs"
    /\ Returns("sync_jobs", <<sp, j>>, <<"D", k>>,
               SyncJobs(World, opt, <<sp, j>>, <<"D", k>>))
    /\ ncalls' = ncalls + 1
    /\ UNCHANGED <<opt, par, ask, guard>>

(* ------------------- sync_projects with a thread pool ----------------- *)
\* the jobs whose results the loop over pool.imap has not yet received
Undrained(p) == p.jobs \ p.got
\* results handed over in the order the workers post them
AnyResult(p, j) == j \in Undrained(p)
\* pool.imap yields the results in the order of jobs_to_sync
NextResult(p, j) ==
    j \in Undrained(p) /\ \A i \in Undrained(p) : j <= i

RECURSIVE BackupCopies(_, _)
BackupCopies(p, j) ==
    IF j > NJobs THEN 0
    ELSE (IF j \in p.cloned \cup p.synced THEN p.tk[j].bcopies ELSE 0) + BackupCopies(p, j + 1)

\* what the call has done when it returns or raises with task t's error
PoolResult(p, t) ==
    [Result(World, t.err) EXCEPT
        !.keys = t.keys, !.efile = t.efile, !.epath = t.epath,
        !.cloned = p.cloned, !.synced = p.synced,
        !.copied = UNION {{<<j>> \o q : q \in p.tk[j].copied} : j \in p.cloned \cup p.synced},
        !.bcopies = p.bcopies + BackupCopies(p, 1)]

\* the calling thread has run the prologue with outcome pr: it raises, or
\* opens the pool and hands every job of jobs_to_sync to pool.imap
PoolStarted(sp, pr) ==
    /\ Becomes(pr)
    /\ IF pr.err # "none"
       THEN /\ last' = Called("sync_projects", <<sp, 0>>, <<"D", 0>>, World, pr)
            /\ ncalls' = ncalls + 1
            /\ par' = [par EXCEPT !.phase = "returned", !.src = sp]
       ELSE /\ par' = [phase |-> "running", src |-> sp, jobs |-> JobsToSync(World, opt, sp),
                       got |-> {}, cloned |-> {}, synced |-> {}, bcopies |-> pr.bcopies, pre |-> World,
                       tk |-> [j \in 1..NJobs |->
                                 Task(IF j \in JobsToSync(World, opt, sp)
                                      THEN "queued" ELSE "none",
                                      0, TRUE, FALSE, FALSE, pr.w.heap, "none", NoFileLog)]]
            /\ UNCHANGED <<last, ncalls>>
    /\ UNCHANGED <<opt, ask, guard>>

\* destination.sync(source, ..., parallel=n), lines 524-590
PoolStart(sp) ==
    /\ ncalls < opt.calls
    /\ opt.op = "sync_projects" /\ opt.parallel > 0
    /\ par.phase = "idle"
    /\ PoolStarted(sp, ProjectPrologue(World, opt, sp, "D"))

\* a step x of the task of job j
TaskMoves(j, x) ==
    /\ Becomes(x)
    /\ par' = [par EXCEPT !.tk[j] = x.t]
    /\ UNCHANGED <<opt, last, ncalls, ask, guard>>

\* a free worker thread takes the oldest task of the queue
WorkerTake(j) ==
    /\ par.phase = "running"
    /\ par.tk[j].st = "queued"
    /\ \A i \in 1..(j - 1) : par.tk[i].st # "queued"
    /\ Cardinality({i \in 1..NJobs : par.tk[i].st = "running"}) < opt.parallel
    /\ TaskMoves(j, TaskBegin(World, [opt EXCEPT !.fresh = FALSE], <<par.src, j>>, <<"D", j>>))

\* a worker thread completes its task and posts the result; the threads of
\* a terminated pool run on until their task is done
WorkerFinish(j) ==
    /\ par.tk[j].st = "running"
    /\ TaskMoves(j, TaskEnd(World, [opt EXCEPT !.fresh = FALSE], <<"D", j>>, par.tk[j]))

\* for i, ret in enumerate(pool.imap(...)): count[ret] += 1
CallerCount(j) ==
    /\ par.phase = "running"
    /\ NextResult(par, j) /\ par.tk[j].st = "ok"
    /\ par' = Counted(par, j)
    /\ UNCHANGED <<heap, docfile, bak, mat, files, sk, sch, opt, last, ncalls, ask, guard>>

\* the next result is an exception: it is raised in the calling thread,
\* ThreadPool.__exit__ terminates the pool, which empties the task queue
CallerRaise(j) ==
    /\ par.phase = "running"
    /\ NextResult(par, j) /\ par.tk[j].st = "failed"
    /\ par' = [par EXCEPT !.phase = "returned",
                          !.tk = [i \in 1..NJobs |->
                                    IF @[i].st = "queued" THEN [@[i] EXCEPT !.st = "dropped"]
                                    ELSE @[i]]]
    /\ last' = Called("sync_projects", <<par.src, 0>>, <<"D", 0>>, par.pre,
                      PoolResult(par, par.tk[j]))
    /\ ncalls' = ncalls + 1
    /\ UNCHANGED <<heap, docfile, bak, mat, files, sk, sch, opt, ask, guard>>

\* every result is received: the call returns
CallerReturn ==
    /\ par.phase = "running"
    /\ Undrained(par) = {}
    /\ par' = [par EXCEPT !.phase = "returned"]
    /\ last' = Called("sync_projects", <<par.src, 0>>, <<"D", 0>>, par.pre,
                      PoolResult(par, Task("none", 0, TRUE, FALSE, FALSE, heap, "none",
                                           NoFileLog)))
    /\ ncalls' = ncalls + 1
    /\ UNCHANGED <<heap, docfile, bak, mat, files, sk, sch, opt, ask, guard>>

(* ------------------ create_doc_backup, step by step ------------------- *)
\* sync_jobs of two jobs with empty workspaces has reached line 474 and
\* enters create_doc_backup: create_backup raises RuntimeError, or the
\* backup is taken (deepcopy(doc), or the duplicate of the document file)
\* and the proxy is yielded
BackupEnter(sj, dj) ==
    /\ ncalls < opt.calls /\ opt.op = "sync_jobs"
    /\ guard.pc = "idle"
    /\ IF BackupRefused(World, opt, dj)
       THEN /\ guard' = [guard EXCEPT !.pc = "done", !.mode = "refused", !.src = sj,
                                      !.doc = dj, !.pre = World]
            /\ last' = Called("sync_jobs", sj, dj, World, Result(World, "RuntimeError"))
            /\ ncalls' = ncalls + 1
            /\ UNCHANGED bak
       ELSE /\ guard' = [guard EXCEPT
                            !.pc = "region", !.src = sj, !.doc = dj, !.pre = World,
                            !.mode = IF InMemoryBackup(World, opt, dj) THEN "memory" ELSE "file",
                            !.mem = IF InMemoryBackup(World, opt, dj) THEN heap ELSE @,
                            !.dup = IF InMemoryBackup(World, opt, dj) THEN @
                                    ELSE BackupTaken(World, opt, dj, @)]
            /\ bak' = [bak EXCEPT ![dj] = @ \/ (~InMemoryBackup(World, opt, dj) /\ ~opt.dry)]
            /\ UNCHANGED <<last, ncalls>>
    /\ UNCHANGED <<heap, docfile, mat, files, sk, sch, opt, par, ask>>

\* the guarded region has run with outcome st
RegionRan(st) ==
    /\ heap' = st.h
    /\ docfile' = [docfile EXCEPT ![guard.doc] = @ \/ (opt.kind = "file" /\ st.wrote)]
    /\ guard' = [guard EXCEPT !.pc = "exit", !.st = st]
    /\ UNCHANGED <<bak, mat, files, sk, sch, opt, last, ncalls, par, ask>>

\* line 475, doc_sync(src.document, dst_proxy)
BackupRegion ==
    /\ guard.pc = "region"
    /\ RegionRan(RunDocSync([h |-> heap, sk |-> IF opt.fresh THEN {} ELSE sk, vis |-> {},
                             asked |-> {}, err |-> "none", wrote |-> FALSE],
                            opt, guard.src, guard.doc))

\* the with block is left with dr: the duplicate is removed, the call ends
BackupLeaves(dr) ==
    /\ Becomes([w |-> BackupRemoved(dr.w, opt, guard.doc, guard.mode)])
    /\ last' = Called("sync_jobs", guard.src, guard.doc, guard.pre,
                      DocResult(Result(dr.w, "none"), dr))
    /\ ncalls' = ncalls + 1
    /\ guard' = [guard EXCEPT !.pc = "done",
                              !.dup = IF guard.mode = "file" /\ ~opt.dry THEN NoDup ELSE @]
    /\ UNCHANGED <<opt, par, ask>>

\* what the backup of the guarded document holds: the deep copy, the
\* duplicate, or nothing to restore from when a dry run has made no copy
\* (the document as it was then stands for the choice made on entry)
BackupHeld ==
    IF guard.mode = "memory" THEN guard.mem
    ELSE IF guard.dup.tag = "copy" THEN guard.dup.h ELSE guard.pre.heap

\* lines 228-234 and 244-247: the restore from the backup when the region
\* raised, and the removal of the duplicate
BackupExit ==
    /\ guard.pc = "exit"
    /\ BackupLeaves(DocBackupExit([World EXCEPT !.heap = BackupHeld], opt, guard.doc,
                                  guard.st))

(* ------------------- the threads that call FileSync.Ask --------------- *)
AskUnchanged ==
    UNCHANGED <<heap, docfile, bak, mat, files, sk, sch, opt, last, ncalls, par, guard>>

\* a thread takes the next job: the calling thread in the sequential loop,
\* a worker of the pool otherwise
AskTake(t, j) ==
    /\ ask.thr[t].pc = "idle"
    /\ j \notin ask.started /\ \A i \in 1..(j - 1) : i \in ask.started
    /\ ask' = [ask EXCEPT !.started = @ \cup {j}, !.thr[t] = [@ EXCEPT !.pc = "walk", !.job = j]]
    /\ AskUnchanged

\* strategy(src, dst, os.path.join(subdir, fn)) for the next differing file
AskCall(t) ==
    /\ ask.thr[t].pc = "walk"
    /\ ask.todo[ask.thr[t].job] # {}
    /\ ask' = AskCalled(ask, t, NextName(ask.todo[ask.thr[t].job], 1))
    /\ AskUnchanged

\* the operator answers the prompt of thread t
AskAnswer(t, overwrite) ==
    /\ ask.thr[t].pc = "prompt"
    /\ ask' = AskAnswered(ask, t, ask.thr[t].fn, overwrite)
    /\ AskUnchanged

\* the walk of the job is over
AskDone(t) ==
    /\ ask.thr[t].pc = "walk"
    /\ ask.todo[ask.thr[t].job] = {}
    /\ ask' = [ask EXCEPT !.thr[t] = [@ EXCEPT !.pc = "idle"]]
    /\ AskUnchanged

(* ------------------------------ initial ------------------------------- *)
\* a document given by the values at its key-paths a, b, b.a, b.b, b.a.b
\* (0 absent, -1 a mapping, n a scalar)
Shape(a, b, ba, bb, bab) ==
    [kp \in KeyPaths |->
        CASE kp = <<"a">> -> a
          [] kp = <<"b">> -> b
          [] kp = <<"b", "a">> -> ba
          [] kp = <<"b", "b">> -> bb
          [] kp = <<"b", "a", "b">> -> bab
          [] OTHER -> 0]
Shapes(top) ==
    {Shape(a, b, ba, bb, bab) :
        a \in 0..top, b \in -1..top, ba \in -1..top, bb \in 0..top, bab \in 0..top}
WellFormed(f) ==
    \A kp \in KeyPaths :
        /\ Len(kp) > 1 /\ f[kp] # 0 => f[SubSeq(kp, 1, Len(kp) - 1)] = -1
        /\ Len(kp) = MaxDepth => f[kp] # -1
SrcShapes == {f \in Shapes(MaxScalar) : WellFormed(f)}
DstShapes == {f \in Shapes(1) : WellFormed(f)}
EmptyShape == [kp \in KeyPaths |-> 0]

ObjOf(d, p, f) ==
    [k \in Keys |->
        LET v == f[Append(p, k)]
        IN IF v = 0 THEN NoneCell ELSE IF v = -1 THEN MapCell(d) ELSE ValCell(v)]
\* the heap holds the objects of the documents the behaviour works on
HeapOf(shape, docs) == [x \in docs \X ObjPaths |-> ObjOf(x[1], x[2], shape[x[1]])]

NoFiles == [q \in FPaths |-> NoFile]
NoCall ==
    [op |-> "init", src |-> NoDoc, dst |-> NoDoc, pre |-> World, err |-> "none",
     keys |-> {}, efile |-> <<>>, epath |-> <<>>, vis |-> {}, asked |-> {}, copied |-> {},
     fasked |-> {}, cloned |-> {}, synced |-> {}, skipped |-> {}, bcopies |-> 0]

\* no call of sync_projects with a pool is under way
NoPool ==
    [phase |-> "idle", src |-> "-", jobs |-> {}, got |-> {}, cloned |-> {}, synced |-> {},
     bcopies |-> 0, pre |-> <<>>,
     tk |-> [j \in 1..NJobs |-> Task("none", 0, TRUE, FALSE, FALSE, <<>>, "none", NoFileLog)]]

\* no FileSync.Ask object is in use
NoAsk ==
    [yes |-> {}, no |-> {}, prompts |-> [fn \in AskNames |-> 0], said |-> {}, copied |-> {},
     todo |-> [j \in 1..NJobs |-> {}], started |-> {}, thr |-> <<>>]

\* no create_doc_backup is under way
NoGuard ==
    [pc |-> "idle", mode |-> "none", src |-> NoDoc, doc |-> NoDoc, dup |-> NoDup,
     mem |-> <<>>, st |-> <<>>, pre |-> <<>>]

KeyStrategies ==
    {[kind |-> "none", pat |-> ""], [kind |-> "true", pat |-> ""],
     [kind |-> "false", pat |-> ""], [kind |-> "regex", pat |-> "b"]}
NoKeyStrategy == [kind |-> "none", pat |-> ""]

\* the arguments of the calls of one behaviour
Options(op, calls, kind, dry, doc, ks, fresh, strategy, exclude, deep) ==
    [op |-> op, calls |-> calls, kind |-> kind, dry |-> dry, doc |-> doc, ks |-> ks,
     fresh |-> fresh, strategy |-> strategy, exclude |-> exclude, deep |-> deep,
     selall |-> TRUE, sel |-> {}, check_schema |-> TRUE, parallel |-> 0]

\* the initial state with the given documents, workspaces and arguments
Start(shape, docs, kind, stale, fl, jobs, o) ==
    /\ heap = HeapOf(shape, docs)
    /\ docfile = [x \in DocIds |-> kind = "file" /\ shape[x] # EmptyShape]
    /\ bak = [x \in DocIds |-> x \in stale]
    /\ mat = [x \in JobIds |-> x \in jobs]
    /\ files = fl
    /\ sk = {}
    /\ sch = [p \in Projects |-> {"x"}]
    /\ opt = o
    /\ ncalls = 0
    /\ last = NoCall
    /\ par = NoPool
    /\ ask = NoAsk
    /\ guard = NoGuard

\* one sync_jobs call; rich documents of one source and one destination job
Init ==
    \E s \in SrcShapes, d \in DstShapes, kind \in {"mem", "file"}, dry \in BOOLEAN,
       ks \in KeyStrategies, doc \in {"bykey", "update"} :
        /\ doc = "update" => ks = NoKeyStrategy
        /\ Start([x \in DocIds |->
                    IF x = <<"S1", 1>> THEN s ELSE IF x = <<"D", 1>> THEN d ELSE EmptyShape],
                 {<<"S1", 1>>, <<"D", 1>>}, kind, {}, [x \in JobIds |-> NoFiles],
                 {<<"S1", 1>>, <<"D", 1>>},
                 Options("sync_jobs", 1, kind, dry, doc, ks, TRUE, "none", {}, FALSE))

Next == SyncJobsCall("S1", 1)

Spec == Init /\ [][Next]_vars

\* a sequence of sync_jobs calls from two source jobs into one destination
\* job, with one DocSync.ByKey object (or the default) for all calls
SeqShape(f) == f[<<"a">>] = 0 /\ f[<<"b", "a">>] # -1
InitSeq ==
    \E s1 \in {f \in SrcShapes : SeqShape(f)}, s2 \in {f \in SrcShapes : SeqShape(f)},
       d \in {f \in DstShapes : SeqShape(f)}, kind \in {"mem", "file"}, dry \in BOOLEAN,
       ks \in {[kind |-> "none", pat |-> ""], [kind |-> "true", pat |-> ""]},
       fresh \in BOOLEAN :
        /\ ks.kind # "none" => ~fresh
        /\ Start([x \in DocIds |->
                    IF x = <<"S1", 1>> THEN s1 ELSE IF x = <<"S2", 1>> THEN s2
                    ELSE IF x = <<"D", 1>> THEN d ELSE EmptyShape],
                 {<<"S1", 1>>, <<"S2", 1>>, <<"D", 1>>}, kind, {},
                 [x \in JobIds |-> NoFiles],
                 {<<"S1", 1>>, <<"S2", 1>>, <<"D", 1>>},
                 Options("sync_jobs", MaxCalls, kind, dry, "bykey", ks, fresh, "none", {},
                         FALSE))

NextSeq == \E sp \in SrcProjects : SyncJobsCall(sp, 1)

SpecSeq == InitSeq /\ [][NextSeq]_vars

\* one sync_jobs call; rich workspaces of one source and one destination job
File(c, m) == [t |-> "file", c |-> c, m |-> m]
Dir == [t |-> "dir", c |-> 0, m |-> 0]
Tree(d, f, tags, df, dg) ==
    [q \in FPaths |->
        CASE q = <<"d">> -> d
          [] q = <<"f">> -> f
          [] q = <<"tags">> -> tags
          [] q = <<"d", "f">> -> df
          [] q = <<"d", "g">> -> dg
          [] OTHER -> NoFile]
SrcFile == {NoFile, File(1, 2)}
DstFile == {NoFile, File(1, 1), File(2, 1), File(2, 2)}
SrcTrees ==
    {Tree(d, f, tags, df, dg) :
        d \in {NoFile, Dir}, f \in SrcFile, tags \in SrcFile, df \in SrcFile, dg \in SrcFile}
DstTrees ==
    {Tree(d, f, NoFile, df, NoFile) : d \in {NoFile, Dir}, f \in DstFile, df \in DstFile}
TreeOk(t) ==
    \A q \in FPaths : Len(q) > 1 /\ t[q].t # "none" => t[<<q[1]>>].t = "dir"
\* the documents and document arguments the workspace runs are made with
FileDocCases ==
    {[kind |-> "file", doc |-> "bykey", stale |-> FALSE,
      s |-> Shape(1, 0, 0, 0, 0), d |-> Shape(1, 0, 0, 0, 0)],
     [kind |-> "file", doc |-> "bykey", stale |-> TRUE,
      s |-> Shape(1, 0, 0, 0, 0), d |-> Shape(1, 0, 0, 0, 0)],
     [kind |-> "file", doc |-> "COPY", stale |-> FALSE,
      s |-> Shape(2, 0, 0, 0, 0), d |-> Shape(1, 0, 0, 0, 0)],
     [kind |-> "mem", doc |-> "bykey", stale |-> FALSE,
      s |-> Shape(2, 0, 0, 0, 0), d |-> Shape(1, 0, 0, 0, 0)]}
InitFiles ==
    \E ts \in {t \in SrcTrees : TreeOk(t)}, td \in {t \in DstTrees : TreeOk(t)},
       dc \in FileDocCases, dry \in BOOLEAN, deep \in BOOLEAN,
       strategy \in {"none", "always", "never", "update"}, exclude \in {{}, {"f"}},
       dmat \in BOOLEAN :
        /\ ~dmat => td = NoFiles /\ dc.kind = "mem"
        /\ dc.doc = "COPY" \/ dc.stale => exclude = {} /\ deep
        /\ dc.kind = "mem" => exclude = {}
        /\ Start([x \in DocIds |->
                    IF x = <<"S1", 1>> THEN dc.s ELSE IF x = <<"D", 1>> /\ dmat THEN dc.d
                    ELSE EmptyShape],
                 {<<"S1", 1>>, <<"D", 1>>}, dc.kind, IF dc.stale THEN {<<"D", 1>>} ELSE {},
                 [x \in JobIds |->
                    IF x = <<"S1", 1>> THEN ts ELSE IF x = <<"D", 1>> THEN td ELSE NoFiles],
                 {<<"S1", 1>>} \cup (IF dmat THEN {<<"D", 1>>} ELSE {}),
                 Options("sync_jobs", 1, dc.kind, dry, dc.doc, NoKeyStrategy, TRUE,
                         strategy, exclude, deep))

SpecFiles == InitFiles /\ [][Next]_vars

\* one sync_jobs call on workspaces that both hold the directory "d", with
\* an exclude pattern that matches the directory's name
InitExcl ==
    \E ts \in {t \in SrcTrees : t[<<"d">>] = Dir}, td \in {t \in DstTrees : t[<<"d">>] = Dir},
       dry \in BOOLEAN, deep \in BOOLEAN,
       strategy \in {"none", "always", "never", "update"} :
        Start([x \in DocIds |-> IF x \in {<<"S1", 1>>, <<"D", 1>>}
                                THEN Shape(1, 0, 0, 0, 0) ELSE EmptyShape],
              {<<"S1", 1>>, <<"D", 1>>}, "file", {},
              [x \in JobIds |->
                 IF x = <<"S1", 1>> THEN ts ELSE IF x = <<"D", 1>> THEN td ELSE NoFiles],
              {<<"S1", 1>>, <<"D", 1>>},
              Options("sync_jobs", 1, "file", dry, "bykey", NoKeyStrategy, TRUE,
                      strategy, {"d"}, deep))

SpecExcl == InitExcl /\ [][Next]_vars

\* one sync_jobs call with strategy `always` and deep comparison on
\* workspaces where the name "d" may be a file on one side and a directory
\* on the other; no name of DEFAULT_IGNORES is in use
InitMixed ==
    \E ts \in {t \in {Tree(d, f, NoFile, df, dg) :
                        d \in {NoFile, Dir, File(1, 2)}, f \in SrcFile, df \in SrcFile,
                        dg \in SrcFile} : TreeOk(t)},
       td \in {t \in {Tree(d, f, NoFile, df, NoFile) :
                        d \in {NoFile, Dir, File(2, 1)}, f \in DstFile,
                        df \in DstFile} : TreeOk(t)},
       dry \in BOOLEAN :
        Start([x \in DocIds |-> IF x \in {<<"S1", 1>>, <<"D", 1>>}
                                THEN Shape(1, 0, 0, 0, 0) ELSE EmptyShape],
              {<<"S1", 1>>, <<"D", 1>>}, "file", {},
              [x \in JobIds |->
                 IF x = <<"S1", 1>> THEN ts ELSE IF x = <<"D", 1>> THEN td ELSE NoFiles],
              {<<"S1", 1>>, <<"D", 1>>},
              Options("sync_jobs", 1, "file", dry, "bykey", NoKeyStrategy, TRUE,
                      "always", {}, TRUE))

SpecMixed == InitMixed /\ [][Next]_vars

\* one sync_jobs call from job 2 of the source into job 1 of the
\* destination: the manifests differ, the document strategy varies, the
\* destination job may have no document file
InitAcross ==
    \E f \in SrcFile, g \in DstFile, sa \in 1..MaxScalar, da \in 0..1, dry \in BOOLEAN,
       dmat \in BOOLEAN, doc \in {"bykey", "update", "COPY", "NO_SYNC"},
       strategy \in {"none", "always", "never", "update"} :
        /\ ~dmat => g = NoFile /\ da = 0
        /\ Start([x \in DocIds |->
                    IF x = <<"S1", 2>> THEN Shape(sa, 0, 0, 0, 0)
                    ELSE IF x = <<"D", 1>> THEN Shape(da, 0, 0, 0, 0) ELSE EmptyShape],
                 {<<"S1", 2>>, <<"D", 1>>}, "file", {},
                 [x \in JobIds |->
                    IF x = <<"S1", 2>> THEN Tree(NoFile, f, NoFile, NoFile, NoFile)
                    ELSE IF x = <<"D", 1>> THEN Tree(NoFile, g, NoFile, NoFile, NoFile)
                    ELSE NoFiles],
                 {<<"S1", 2>>} \cup (IF dmat THEN {<<"D", 1>>} ELSE {}),
                 Options("sync_jobs", 1, "file", dry, doc, NoKeyStrategy, TRUE,
                         strategy, {}, TRUE))

NextAcross == SyncJobsAcross("S1", 2, 1)

SpecAcross == InitAcross /\ [][NextAcross]_vars

\* one call of sync_jobs on a job and itself, or of sync_projects on a
\* project and itself
InitSelf ==
    \E op \in {"sync_jobs", "sync_projects"}, td \in {t \in DstTrees : TreeOk(t)},
       da \in 0..1, dry \in BOOLEAN, doc \in {"bykey", "COPY"},
       strategy \in {"none", "always", "never", "update"} :
        Start([x \in DocIds |-> IF x = <<"D", 1>> THEN Shape(da, 0, 0, 0, 0) ELSE EmptyShape],
              {"D"} \X (0..NJobs), "file", {},
              [x \in JobIds |-> IF x = <<"D", 1>> THEN td ELSE NoFiles],
              {<<"D", 1>>},
              Options(op, 1, "file", dry, doc, NoKeyStrategy, TRUE, strategy, {}, FALSE))

NextSelf == SyncJobsAcross("D", 1, 1) \/ SyncProjectsCall("D")

SpecSelf == InitSelf /\ [][NextSelf]_vars

\* sync_projects calls from one source project into the destination project
ProjShape(x, sa, da, pa, qa) ==
    CASE x = <<"S1", 0>> -> Shape(pa, 0, 0, 0, 0)
      [] x = <<"D", 0>> -> Shape(qa, 0, 0, 0, 0)
      [] x = <<"S1", 1>> -> Shape(sa, 0, 0, 0, 0)
      [] x = <<"D", 1>> -> Shape(da, 0, 0, 0, 0)
      [] x[1] = "S1" -> Shape(1, 0, 0, 0, 0)
      [] OTHER -> EmptyShape
InitProj ==
    \E sj \in SUBSET (1..NJobs), dj \in SUBSET (1..NJobs), sa \in 1..MaxScalar, da \in 0..1,
       pa \in {0, MaxScalar}, qa \in 0..1, df \in [1..NJobs -> {NoFile, File(2, 1)}],
       dry \in BOOLEAN, strategy \in {"none", "always"} :
        /\ \A j \in 1..NJobs : j \notin dj => df[j] = NoFile
        /\ 1 \notin dj => da = 0
        /\ Start([x \in DocIds |->
                    IF x[2] = 0 \/ (x[1] = "S1" /\ x[2] \in sj) \/ (x[1] = "D" /\ x[2] \in dj)
                    THEN ProjShape(x, sa, da, pa, qa) ELSE EmptyShape],
                 {"S1", "D"} \X (0..NJobs), "file", {},
                 [x \in JobIds |->
                    IF x[1] = "S1" /\ x[2] \in sj
                    THEN Tree(NoFile, File(1, 2), NoFile, NoFile, NoFile)
                    ELSE IF x[1] = "D" /\ x[2] \in dj
                    THEN Tree(NoFile, df[x[2]], NoFile, NoFile, NoFile)
                    ELSE NoFiles],
                 {<<"S1", j>> : j \in sj} \cup {<<"D", j>> : j \in dj},
                 Options("sync_projects", MaxCalls, "file", dry, "bykey", NoKeyStrategy,
                         TRUE, strategy, {}, FALSE))

NextProj == SyncProjectsCall("S1")

SpecProj == InitProj /\ [][NextProj]_vars

\* one sync_projects call between projects of every pair of detected
\* schemas, with and without check_schema
InitSchema ==
    \E ss \in SUBSET {"x", "y"}, sd \in SUBSET {"x", "y"}, cs \in BOOLEAN, sj \in SUBSET (1..NJobs),
       dj \in SUBSET (1..NJobs), pa \in 0..1, dry \in BOOLEAN :
        /\ heap = HeapOf([x \in DocIds |->
                            IF x = <<"S1", 0>> THEN Shape(pa, 0, 0, 0, 0)
                            ELSE IF x[1] = "S1" /\ x[2] \in sj THEN Shape(1, 0, 0, 0, 0)
                            ELSE EmptyShape],
                         {"S1", "D"} \X (0..NJobs))
        /\ docfile = [x \in DocIds |-> x[1] = "S1" /\ (x[2] \in sj \/ (x[2] = 0 /\ pa > 0))]
        /\ bak = [x \in DocIds |-> FALSE]
        /\ mat = [x \in JobIds |-> (x[1] = "S1" /\ x[2] \in sj) \/ (x[1] = "D" /\ x[2] \in dj)]
        /\ files = [x \in JobIds |->
                      IF x[1] = "S1" /\ x[2] \in sj
                      THEN Tree(NoFile, File(1, 2), NoFile, NoFile, NoFile) ELSE NoFiles]
        /\ sk = {}
        /\ sch = [p \in Projects |-> IF p = "S1" THEN ss ELSE IF p = "D" THEN sd ELSE {}]
        /\ opt = [Options("sync_projects", 1, "file", dry, "bykey", NoKeyStrategy, TRUE,
                          "none", {}, FALSE) EXCEPT !.check_schema = cs]
        /\ ncalls = 0
        /\ last = NoCall
        /\ par = NoPool
        /\ ask = NoAsk
        /\ guard = NoGuard

SpecSchema == InitSchema /\ [][NextProj]_vars

\* sync_projects calls with a selection of job ids (selall: selection=None)
InitSel ==
    \E sj \in SUBSET (1..NJobs), dj \in SUBSET (1..NJobs), selall \in BOOLEAN,
       sel \in SUBSET (1..NJobs), da \in 0..MaxScalar, dry \in BOOLEAN,
       strategy \in {"none", "always"}, g \in {NoFile, File(2, 1)} :
        /\ selall => sel = {}
        /\ 1 \notin dj => da = 0 /\ g = NoFile
        /\ Start([x \in DocIds |->
                    IF x[1] = "S1" /\ x[2] \in sj THEN Shape(1, 0, 0, 0, 0)
                    ELSE IF x = <<"D", 1>> THEN Shape(da, 0, 0, 0, 0) ELSE EmptyShape],
                 {"S1", "D"} \X (0..NJobs), "file", {},
                 [x \in JobIds |->
                    IF x[1] = "S1" /\ x[2] \in sj
                    THEN Tree(NoFile, File(1, 2), NoFile, NoFile, NoFile)
                    ELSE IF x = <<"D", 1>> THEN Tree(NoFile, g, NoFile, NoFile, NoFile)
                    ELSE NoFiles],
                 {<<"S1", j>> : j \in sj} \cup {<<"D", j>> : j \in dj},
                 [Options("sync_projects", MaxCalls, "file", dry, "bykey", NoKeyStrategy,
                          TRUE, strategy, {}, FALSE) EXCEPT !.selall = selall, !.sel = sel])

SpecSel == InitSel /\ [][NextProj]_vars

\* one sequential sync_projects call on projects with rich project
\* documents; the source's jobs are cloned, or merged into a job that has
\* neither their file nor their document key
InitProjDoc ==
    \E s \in SrcShapes, d \in DstShapes, dry \in BOOLEAN, sj \in {{1}, 1..NJobs},
       dj \in {{}, {1}} :
        Start([x \in DocIds |->
                 IF x = <<"S1", 0>> THEN s ELSE IF x = <<"D", 0>> THEN d
                 ELSE IF x[1] = "S1" /\ x[2] \in sj THEN Shape(1, 0, 0, 0, 0)
                 ELSE EmptyShape],
              {"S1", "D"} \X (0..NJobs), "file", {},
              [x \in JobIds |->
                 IF x[1] = "S1" /\ x[2] \in sj
                 THEN Tree(NoFile, File(1, 2), NoFile, NoFile, NoFile) ELSE NoFiles],
              {<<"S1", j>> : j \in sj} \cup {<<"D", j>> : j \in dj},
              Options("sync_projects", 1, "file", dry, "bykey", NoKeyStrategy, TRUE,
                      "none", {}, FALSE))

SpecProjDoc == InitProjDoc /\ [][NextProj]_vars

\* one sync_jobs call from a source job that is part of its project or is
\* not (it then has no workspace and no document), into a destination job
\* that is or is not part of its own
InitAbsent ==
    \E smat \in BOOLEAN, dmat \in BOOLEAN, td \in {t \in DstTrees : TreeOk(t)}, da \in 0..1,
       dry \in BOOLEAN, doc \in {"bykey", "update", "COPY", "NO_SYNC"},
       strategy \in {"none", "always"} :
        /\ ~dmat => td = NoFiles /\ da = 0
        /\ Start([x \in DocIds |->
                    IF x = <<"S1", 1>> /\ smat THEN Shape(MaxScalar, 0, 0, 0, 0)
                    ELSE IF x = <<"D", 1>> THEN Shape(da, 0, 0, 0, 0) ELSE EmptyShape],
                 {<<"S1", 1>>, <<"D", 1>>}, "file", {},
                 [x \in JobIds |->
                    IF x = <<"S1", 1>> /\ smat
                    THEN Tree(Dir, File(1, 2), NoFile, NoFile, File(1, 2))
                    ELSE IF x = <<"D", 1>> THEN td ELSE NoFiles],
                 (IF smat THEN {<<"S1", 1>>} ELSE {}) \cup (IF dmat THEN {<<"D", 1>>} ELSE {}),
                 Options("sync_jobs", 1, "file", dry, doc, NoKeyStrategy, TRUE,
                         strategy, {}, TRUE))

SpecAbsent == InitAbsent /\ [][Next]_vars

\* one sync_jobs call of two jobs with empty workspaces, its
\* create_doc_backup taken step by step; the destination document may have
\* a duplicate of its file left by an earlier run
InitBackup ==
    \E s \in {f \in SrcShapes : SeqShape(f)}, d \in {f \in DstShapes : SeqShape(f)},
       kind \in {"mem", "file"}, dry \in BOOLEAN, stale \in BOOLEAN,
       ks \in {[kind |-> "none", pat |-> ""], [kind |-> "true", pat |-> ""]} :
        /\ heap = HeapOf([x \in DocIds |->
                            IF x = <<"S1", 1>> THEN s ELSE IF x = <<"D", 1>> THEN d
                            ELSE EmptyShape],
                         {<<"S1", 1>>, <<"D", 1>>})
        /\ docfile = [x \in DocIds |->
                        kind = "file" /\ (IF x = <<"S1", 1>> THEN s ELSE IF x = <<"D", 1>> THEN d
                                          ELSE EmptyShape) # EmptyShape]
        /\ bak = [x \in DocIds |-> stale /\ x = <<"D", 1>>]
        /\ mat = [x \in JobIds |-> x \in {<<"S1", 1>>, <<"D", 1>>}]
        /\ files = [x \in JobIds |-> NoFiles]
        /\ sk = {}
        /\ sch = [p \in Projects |-> {"x"}]
        /\ opt = Options("sync_jobs", 1, kind, dry, "bykey", ks, TRUE, "none", {}, FALSE)
        /\ ncalls = 0
        /\ last = NoCall
        /\ par = NoPool
        /\ ask = NoAsk
        /\ guard = [NoGuard EXCEPT !.dup = IF stale THEN StaleDup ELSE NoDup]

NextBackup ==
    \/ BackupEnter(<<"S1", 1>>, <<"D", 1>>)
    \/ BackupRegion
    \/ BackupExit

SpecBackup == InitBackup /\ [][NextBackup]_vars

\* one sync_jobs call with ByKey and a key-strategy given as a regular
\* expression or as the function `lambda key: pat in key`, pat a key
InitKey ==
    \E s \in SrcShapes, d \in DstShapes, kind \in {"mem", "file"},
       ks \in {[kind |-> k, pat |-> p] : k \in {"regex", "contains"}, p \in Keys} :
        Start([x \in DocIds |->
                 IF x = <<"S1", 1>> THEN s ELSE IF x = <<"D", 1>> THEN d ELSE EmptyShape],
              {<<"S1", 1>>, <<"D", 1>>}, kind, {}, [x \in JobIds |-> NoFiles],
              {<<"S1", 1>>, <<"D", 1>>},
              Options("sync_jobs", 1, kind, FALSE, "bykey", ks, FALSE, "none", {}, FALSE))

SpecKey == InitKey /\ [][Next]_vars

\* one sync_projects call with a thread pool of one or two workers; each
\* job is absent from the source, or present in the source and: absent
\* from the destination, the same there, poorer there (no document key, no
\* file), or there with a conflicting document or a differing file
PoolInit(jc, pq, dry, ks, strategy, n) ==
    Start([x \in DocIds |->
             IF x[2] = 0
             THEN (IF ~pq THEN EmptyShape
                   ELSE IF x[1] = "S1" THEN Shape(MaxScalar, 0, 0, 0, 0)
                   ELSE IF x[1] = "D" THEN Shape(1, 0, 0, 0, 0) ELSE EmptyShape)
             ELSE IF x[1] = "S1" /\ jc[x[2]] # "nosrc"
             THEN Shape(IF jc[x[2]] = "dockey" THEN MaxScalar ELSE 1, 0, 0, 0, 0)
             ELSE IF x[1] = "D" /\ jc[x[2]] \in {"same", "dockey", "file"}
             THEN Shape(1, 0, 0, 0, 0)
             ELSE EmptyShape],
          {"S1", "D"} \X (0..NJobs), "file", {},
          [x \in JobIds |->
             IF x[1] = "S1" /\ jc[x[2]] # "nosrc"
             THEN Tree(NoFile, File(1, 2), NoFile, NoFile, NoFile)
             ELSE IF x[1] = "D" /\ jc[x[2]] \in {"same", "dockey"}
             THEN Tree(NoFile, File(1, 2), NoFile, NoFile, NoFile)
             ELSE IF x[1] = "D" /\ jc[x[2]] = "file"
             THEN Tree(NoFile, File(2, 1), NoFile, NoFile, NoFile)
             ELSE NoFiles],
          {x \in JobIds : \/ x[1] = "S1" /\ jc[x[2]] # "nosrc"
                          \/ x[1] = "D" /\ jc[x[2]] \notin {"nosrc", "clone"}},
          [Options("sync_projects", 1, "file", dry, "bykey", ks, TRUE, strategy, {}, FALSE)
             EXCEPT !.parallel = n])
InitPool ==
    \E jc \in [1..NJobs -> {"nosrc", "clone", "same", "add", "dockey", "file"}],
       pq \in BOOLEAN, dry \in BOOLEAN, n \in 1..2, safe \in BOOLEAN :
        PoolInit(jc, pq, dry,
                 IF safe THEN NoKeyStrategy ELSE [kind |-> "false", pat |-> ""],
                 IF safe THEN "none" ELSE "always", n)

NextPool ==
    \/ PoolStart("S1")
    \/ \E j \in 1..NJobs : WorkerTake(j)
    \/ \E j \in 1..NJobs : WorkerFinish(j)
    \/ \E j \in 1..NJobs : CallerCount(j)
    \/ \E j \in 1..NJobs : CallerRaise(j)
    \/ CallerReturn

SpecPool == InitPool /\ [][NextPool]_vars

\* one sync_projects call with strategy=FileSync.Ask(), sequential or with
\* a pool: each job has its set of differing files, and one thread (the
\* caller's) or each worker of the pool walks one job at a time
InitAsk ==
    \E dn \in [1..NJobs -> SUBSET AskNames], n \in 0..2 :
        /\ heap = HeapOf([x \in DocIds |-> EmptyShape], {"S1", "D"} \X (0..NJobs))
        /\ docfile = [x \in DocIds |-> FALSE]
        /\ bak = [x \in DocIds |-> FALSE]
        /\ mat = [x \in JobIds |-> x[1] \in {"S1", "D"}]
        /\ files = [x \in JobIds |->
                      [q \in FPaths |->
                         IF x[1] \in {"S1", "D"} /\ q = <<"d">>
                                /\ <<"d", "f">> \in dn[x[2]] THEN Dir
                         ELSE IF x[1] \in {"S1", "D"} /\ q \in dn[x[2]]
                         THEN File(IF x[1] = "D" THEN 2 ELSE 1, IF x[1] = "D" THEN 1 ELSE 2)
                         ELSE NoFile]]
        /\ sk = {}
        /\ sch = [p \in Projects |-> {"x"}]
        /\ opt = [Options("sync_projects", 1, "file", FALSE, "NO_SYNC", NoKeyStrategy, TRUE,
                          "Ask", {}, FALSE) EXCEPT !.parallel = n]
        /\ ncalls = 0
        /\ last = NoCall
        /\ par = NoPool
        /\ ask = [NoAsk EXCEPT !.todo = dn,
                               !.thr = [t \in 1..(IF n = 0 THEN 1 ELSE n) |->
                                          [pc |-> "idle", job |-> 0, fn |-> <<>>]]]
        /\ guard = NoGuard

NextAsk ==
    \/ \E t \in DOMAIN ask.thr, j \in 1..NJobs : AskTake(t, j)
    \/ \E t \in DOMAIN ask.thr : AskCall(t)
    \/ \E t \in DOMAIN ask.thr, overwrite \in BOOLEAN : AskAnswer(t, overwrite)
    \/ \E t \in DOMAIN ask.thr : AskDone(t)

SpecAsk == InitAsk /\ [][NextAsk]_vars

(* ------------------------------ claims -------------------------------- *)
Docs == {x \in DocIds : <<x, <<>>>> \in DOMAIN heap}
SourceDocs == {x \in Docs : x[1] \in SrcProjects}
Made(op) == last.op = op

\* key-paths at which two documents conflict: both hold a value, the values
\* differ and are not both mappings
Conflicts(h, s, d) ==
    {kp \in KeyPaths :
        LET cs == CellAt(h, s, kp)
            cd == CellAt(h, d, kp)
        IN /\ cs.t # "none" /\ cd.t # "none"
           /\ ~(cs.t = "map" /\ cd.t = "map")
           /\ ~(cs.t = "val" /\ cd.t = "val" /\ cs.v = cd.v)}

\* C1: a sync call leaves the workspace files and the documents of every
\* source job, and the source project documents, as they were before the
\* call, also for the source of an earlier call into the same destination.
C1_SourceNeverMutated ==
    ~Made("init") =>
        /\ \A x \in SourceDocs : DocVal(heap, x) = DocVal(last.pre.heap, x)
        /\ \A x \in JobIds : x[1] \in SrcProjects =>
              files[x] = last.pre.files[x] /\ mat[x] = last.pre.mat[x]

\* the value a document holds at and below key-path kp
SubVal(h, d, kp) ==
    [q \in {q \in SeqsUpTo(MaxDepth) : Len(kp) + Len(q) <= MaxDepth} |->
        Code(CellAt(h, d, kp \o q))]
ByKeyMade(strategy) ==
    /\ Made("sync_jobs") /\ opt.doc = "bykey" /\ last.pre.mat[last.src]
    /\ (opt.ks.kind = "none") = ~strategy

\* C2: a non-dry-run sync_jobs with ByKey and no key-strategy on documents
\* with a conflicting key raises DocumentSyncConflict and leaves the
\* destination document equal to its value before the call.
C2_ConflictRaisesAndRollsBack ==
    ByKeyMade(FALSE) /\ ~opt.dry /\ Conflicts(last.pre.heap, last.src, last.dst) # {} =>
        /\ last.err = "DocumentSyncConflict"
        /\ DocVal(heap, last.dst) = DocVal(last.pre.heap, last.dst)

\* C3: a dry-run sync_jobs leaves the destination document equal to its
\* value before the call, whatever the document strategy and the outcome.
C3_DryRunKeepsDocument ==
    Made("sync_jobs") /\ opt.dry =>
        DocVal(heap, last.dst) = DocVal(last.pre.heap, last.dst)

\* C4: a dry-run sync_projects leaves the set of destination jobs unchanged.
C4_DryRunCreatesNoJob ==
    Made("sync_projects") /\ opt.dry =>
        \A j \in 1..NJobs : mat[<<"D", j>>] = last.pre.mat[<<"D", j>>]

\* C5: a dry-run sync_jobs changes no file of the destination workspace and
\* does not materialize the destination job.
C5_DryRunTouchesNoFile ==
    Made("sync_jobs") /\ opt.dry =>
        /\ files[last.dst] = last.pre.files[last.dst]
        /\ docfile[last.dst] = last.pre.docfile[last.dst]
        /\ mat[last.dst] = last.pre.mat[last.dst]

\* the source keys a full traversal iterates over: those of the document
\* and of every nested mapping that differs from the destination's mapping
ToVisit(h, s, d) ==
    {kp \in KeyPaths :
        /\ CellAt(h, s, kp).t # "none"
        /\ \A n \in 1..(Len(kp) - 1) :
              /\ CellAt(h, s, SubSeq(kp, 1, n)).t = "map"
              /\ CellAt(h, d, SubSeq(kp, 1, n)).t = "map"
              /\ SubVal(h, s, SubSeq(kp, 1, n)) # SubVal(h, d, SubSeq(kp, 1, n))}

\* C6: ByKey without key-strategy raises DocumentSyncConflict only after
\* it has visited every source key, and the error carries every
\* conflicting key-path of the two documents.
C6_AllConflictsCarried ==
    ByKeyMade(FALSE) /\ last.err = "DocumentSyncConflict" =>
        /\ ToVisit(last.pre.heap, last.src, last.dst) \subseteq last.vis
        /\ Conflicts(last.pre.heap, last.src, last.dst) \subseteq last.keys

\* C7: with a key-strategy, ByKey overwrites a conflicting key exactly when
\* the strategy holds of its key-path; otherwise the key keeps the
\* destination's value and is reported as skipped; no DocumentSyncConflict
\* is raised, and an always-true strategy returns normally with every source
\* value in the destination.
C7_KeyStrategyDecides ==
    ByKeyMade(TRUE) /\ ~opt.dry =>
        /\ last.err # "DocumentSyncConflict"
        /\ \A kp \in Conflicts(last.pre.heap, last.src, last.dst) :
              IF KeyStrategy(opt.ks, kp)
              THEN SubVal(heap, last.dst, kp) = SubVal(last.pre.heap, last.src, kp)
              ELSE /\ SubVal(heap, last.dst, kp) = SubVal(last.pre.heap, last.dst, kp)
                   /\ kp \in last.skipped
        /\ opt.ks.kind = "true" =>
              /\ last.err = "none"
              /\ \A kp \in KeyPaths :
                    DocVal(last.pre.heap, last.src)[kp] # 0 =>
                        DocVal(heap, last.dst)[kp] = DocVal(last.pre.heap, last.src)[kp]

\* C8: ByKey without key-strategy that returns normally keeps every
\* key-path of the destination with its value and leaves every source
\* key-path in the destination with the source's value.
C8_ByKeyOnlyAdds ==
    ByKeyMade(FALSE) /\ ~opt.dry /\ last.err = "none" =>
        \A kp \in KeyPaths :
            /\ DocVal(last.pre.heap, last.dst)[kp] # 0 =>
                  DocVal(heap, last.dst)[kp] = DocVal(last.pre.heap, last.dst)[kp]
            /\ DocVal(last.pre.heap, last.src)[kp] # 0 =>
                  DocVal(heap, last.dst)[kp] = DocVal(last.pre.heap, last.src)[kp]

\* the two jobs of the last call held the same files (type and content at
\* every path) and equal documents before the call
IdenticalJobs ==
    LET w == last.pre
    IN /\ w.mat[last.src] /\ w.mat[last.dst]
       /\ \A q \in FPaths : /\ w.files[last.src][q].t = w.files[last.dst][q].t
                            /\ w.files[last.src][q].c = w.files[last.dst][q].c
       /\ w.docfile[last.src] = w.docfile[last.dst]
       /\ DocVal(w.heap, last.src) = DocVal(w.heap, last.dst)
DestinationUnchanged ==
    /\ files[last.dst] = last.pre.files[last.dst]
    /\ docfile[last.dst] = last.pre.docfile[last.dst]
    /\ bak[last.dst] = last.pre.bak[last.dst]
    /\ mat[last.dst] = last.pre.mat[last.dst]
    /\ DocVal(heap, last.dst) = DocVal(last.pre.heap, last.dst)
NoConflictRaised == last.err \notin {"FileSyncConflict", "DocumentSyncConflict"}

SourceOnly(w, s, d, q) ==
    /\ w.files[s][q].t # "none" /\ w.files[d][q].t = "none"
    /\ Len(q) > 1 => w.files[s][<<q[1]>>].t = "dir" /\ w.files[d][<<q[1]>>].t = "dir"

\* C10: after a non-dry-run sync_jobs that returns normally, every
\* non-excluded path that only the source workspace had is in the
\* destination with the source's type and content, whatever the file
\* strategy, and the source's files are unchanged.
C10_SourceOnlyPathsAreCopied ==
    Made("sync_jobs") /\ ~opt.dry /\ last.err = "none" /\ last.pre.mat[last.src] =>
        /\ \A q \in FPaths :
              SourceOnly(last.pre, last.src, last.dst, q) /\ ~Excluded(opt, q[Len(q)]) =>
                  /\ files[last.dst][q].t = last.pre.files[last.src][q].t
                  /\ files[last.dst][q].c = last.pre.files[last.src][q].c
        /\ files[last.src] = last.pre.files[last.src]

\* a file that both workspaces hold and the comparison in use tells apart,
\* at the top level or in a directory that both have, with a name no
\* pattern excludes
Differing(w, c, s, d, q) ==
    /\ w.mat[s] /\ w.mat[d]
    /\ Len(q) > 1 => w.files[s][<<q[1]>>].t = "dir" /\ w.files[d][<<q[1]>>].t = "dir"
    /\ DiffFile(w, c, s, d, SubSeq(q, 1, Len(q) - 1), q[Len(q)])
    /\ ~Excluded(c, q[Len(q)])
DifferingPaths ==
    {q \in FPaths \cup {<<FN_DOCUMENT>>, <<FN_MANIFEST>>} :
        Differing(last.pre, opt, last.src, last.dst, q)}

\* C11: with no file strategy, a non-excluded file on both sides with
\* differing content makes sync_jobs raise FileSyncConflict, and the error
\* names the path of a differing file relative to the job workspace.
C11_ConflictNamesRelativePath ==
    Made("sync_jobs") /\ opt.strategy = "none" /\ DifferingPaths # {} =>
        /\ last.err = "FileSyncConflict"
        /\ last.efile \in DifferingPaths

C13_ExcludedFilesUntouched ==
    Made("sync_jobs") =>
        \A q \in FPaths :
            last.pre.files[last.src][q].t = "file" /\ Excluded(opt, q[Len(q)]) =>
                /\ files[last.dst][q] = last.pre.files[last.dst][q]
                /\ q \notin last.copied /\ q \notin last.fasked
                /\ last.err = "FileSyncConflict" => last.epath # q

\* C14: a directory that both workspaces hold and whose name matches an
\* exclude pattern is not descended into: no file below it is copied,
\* passed to the file strategy or reported as a FileSyncConflict.
C14_ExcludedSubdirNotDescended ==
    Made("sync_jobs") =>
        \A q \in FPaths :
            /\ Len(q) > 1 /\ Excluded(opt, q[1])
            /\ last.pre.files[last.src][<<q[1]>>].t = "dir"
            /\ last.pre.files[last.dst][<<q[1]>>].t = "dir"
            => /\ files[last.dst][q] = last.pre.files[last.dst][q]
               /\ q \notin last.copied /\ q \notin last.fasked
               /\ last.err = "FileSyncConflict" => last.epath # q

\* C15: sync_jobs never copies the manifest file into the destination,
\* whatever the strategies, and copies the document file as a file only
\* when the document strategy is DocSync.COPY; neither file is passed to
\* the file strategy or raised as a conflict otherwise.
C15_ManifestAndDocumentExcluded ==
    Made("sync_jobs") =>
        /\ <<FN_MANIFEST>> \notin last.copied \cup last.fasked
        /\ last.epath # <<FN_MANIFEST>>
        /\ opt.doc # "COPY" =>
              /\ <<FN_DOCUMENT>> \notin last.copied \cup last.fasked
              /\ last.epath # <<FN_DOCUMENT>>
\* jobs with differing manifests and documents, synchronized with 'always'
\* and DocSync.COPY: the document file is copied, the manifest is not
C15_Witness ==
    /\ Made("sync_jobs") /\ ~opt.dry /\ last.src[2] # last.dst[2]
    /\ last.pre.mat[last.dst]
    /\ opt.strategy = "always" /\ opt.doc = "COPY"
    /\ <<FN_DOCUMENT>> \in last.copied
    /\ DocVal(heap, last.dst) = DocVal(last.pre.heap, last.src)
    /\ DocVal(heap, last.dst) # DocVal(last.pre.heap, last.dst)
    /\ last.err = "none"

\* C16: every path of the destination workspace before sync_jobs is still
\* there afterwards with its type, and a path that only the destination
\* had is neither removed, modified, copied over nor reported as a conflict.
C16_OnlyAdds ==
    Made("sync_jobs") =>
        /\ \A q \in FPaths :
              /\ last.pre.files[last.dst][q].t # "none" =>
                    files[last.dst][q].t = last.pre.files[last.dst][q].t
              /\ last.pre.files[last.dst][q].t # "none"
                    /\ last.pre.files[last.src][q].t = "none"
                 => /\ files[last.dst][q] = last.pre.files[last.dst][q]
                    /\ q \notin last.copied \cup last.fasked
                    /\ last.epath # q
        /\ last.pre.docfile[last.dst] => docfile[last.dst]
        /\ last.pre.mat[last.dst] => mat[last.dst]
\* a sync that copies a source-only directory next to destination-only files
C16_Witness ==
    /\ Made("sync_jobs") /\ ~opt.dry /\ last.err = "none"
    /\ <<"d">> \in last.copied
    /\ files[last.dst][<<"d", "g">>].t = "file"
    /\ last.pre.files[last.src][<<"f">>].t = "none"
    /\ files[last.dst][<<"f">>].t = "file"

\* C17: sync_jobs on one workspace as source and destination, and
\* sync_projects on one project as source and destination, raise an error
\* and modify nothing.
C17_IdenticalRejected ==
    ~Made("init") /\ last.src = last.dst =>
        /\ last.err = "ValueError"
        /\ World = last.pre
\* both calls were made on a workspace that holds files
C17_WitnessJobs ==
    /\ Made("sync_jobs") /\ last.src = last.dst /\ ~opt.dry
    /\ files[last.dst][<<"f">>].t = "file" /\ last.err = "ValueError"

\* C18: with check_schema, sync_projects raises SchemaSyncConflict and
\* modifies nothing whenever both detected schemas are non-empty and
\* differ; it raises no schema conflict when a schema is empty or
\* check_schema is off.
C18_SchemaGuard ==
    Made("sync_projects") /\ last.src # last.dst =>
        IF /\ opt.check_schema
           /\ last.pre.sch[last.src[1]] # {} /\ last.pre.sch[last.dst[1]] # {}
           /\ last.pre.sch[last.src[1]] # last.pre.sch[last.dst[1]]
        THEN last.err = "SchemaSyncConflict" /\ World = last.pre
        ELSE last.err # "SchemaSyncConflict"
\* the guard stopped a non-dry-run call that had a project document to
\* merge and a job to clone, the source's schema being part of the other
C18_Witness ==
    /\ Made("sync_projects") /\ ~opt.dry /\ last.err = "SchemaSyncConflict"
    /\ last.pre.sch[last.src[1]] \subseteq last.pre.sch[last.dst[1]]
    /\ last.pre.mat[<<"S1", 1>>] /\ ~mat[<<"D", 1>>]
    /\ DocLen(heap, <<"S1", 0>>) > 0 /\ DocLen(heap, <<"D", 0>>) = 0

\* the selected jobs of the source project before the last call
Selected ==
    {j \in 1..NJobs : last.pre.mat[<<last.src[1], j>>] /\ (opt.selall \/ j \in opt.sel)}

\* C19: a sync_projects call that returns normally has cloned exactly the
\* selected source jobs the destination lacked and synchronized exactly
\* those it had; the two counts add up to the number of selected jobs, and
\* no other job of the destination is created.
C19_CloneOrSyncCounts ==
    Made("sync_projects") /\ last.err = "none" =>
        /\ last.cloned = {j \in Selected : ~last.pre.mat[<<last.dst[1], j>>]}
        /\ last.synced = {j \in Selected : last.pre.mat[<<last.dst[1], j>>]}
        /\ Cardinality(last.cloned) + Cardinality(last.synced) = Cardinality(Selected)
        /\ \A j \in 1..NJobs :
              mat[<<last.dst[1], j>>] = (last.pre.mat[<<last.dst[1], j>>] \/ j \in Selected)
\* a call with an explicit selection that cloned one job and merged another
C19_Witness ==
    /\ Made("sync_projects") /\ last.err = "none" /\ ~opt.selall /\ ~opt.dry
    /\ last.cloned # {} /\ last.synced # {}
    /\ files[<<"D", 1>>][<<"f">>].t = "file"

\* a sync_projects call follows a non-dry-run one that returned normally
Repeated ==
    /\ Made("sync_projects") /\ last.err = "none" /\ ~opt.dry
    /\ ncalls' = ncalls + 1
\* the repeated call merged every selected job, copied nothing from the
\* source, raised nothing and left the destination project as it was
RepeatIsNoOp ==
    /\ last'.cloned = {} /\ last'.synced = Selected'
    /\ last'.copied = {}
    /\ last'.err = "none"
    /\ \A x \in JobIds : x[1] = "D" =>
          files'[x] = files[x] /\ mat'[x] = mat[x]
    /\ \A x \in Docs : x[1] = "D" =>
          /\ DocVal(heap', x) = DocVal(heap, x)
          /\ docfile'[x] = docfile[x] /\ bak'[x] = bak[x]

C21_SelectionDecides ==
    Made("sync_projects") =>
        /\ last.cloned \cup last.synced \subseteq Selected
        /\ last.err = "none" => last.cloned \cup last.synced = Selected
        /\ opt.selall =>
              Selected = {j \in 1..NJobs : last.pre.mat[<<last.src[1], j>>]}
        /\ \A j \in (1..NJobs) \ Selected :
              /\ mat[<<"D", j>>] = last.pre.mat[<<"D", j>>]
              /\ files[<<"D", j>>] = last.pre.files[<<"D", j>>]
              /\ docfile[<<"D", j>>] = last.pre.docfile[<<"D", j>>]
              /\ DocVal(heap, <<"D", j>>) = DocVal(last.pre.heap, <<"D", j>>)
\* job 1 is selected and merged; job 2 of the source is not selected and
\* the destination, which lacks it, still does
C21_Witness ==
    /\ Made("sync_projects") /\ ~opt.dry /\ ~opt.selall /\ opt.sel = {1}
    /\ last.pre.mat[<<"S1", 2>>] /\ ~mat[<<"D", 2>>]
    /\ last.synced = {1} /\ last.err = "none"
    /\ files[<<"D", 1>>][<<"f">>] = File(1, NowTime)
\* the selection names job 2, which the source does not have: job 1 alone
\* is cloned
C21_WitnessIgnored ==
    /\ Made("sync_projects") /\ ~opt.dry /\ opt.sel = {1, 2}
    /\ ~last.pre.mat[<<"S1", 2>>] /\ ~mat[<<"D", 2>>]
    /\ last.cloned = {1} /\ last.err = "none"

\* C22: when a parallel sync_projects raises the error of one job, the
\* clone-or-merge of every other job handed to the pool has run to
\* completion.
C22_OthersCompleteBeforeError ==
    Made("sync_projects") /\ opt.parallel > 0 /\ last.err # "none" =>
        \A j \in par.jobs : par.tk[j].st \in {"ok", "failed"}

\* a destination job as a sync call can change it
JobOf(w, x) ==
    [mat |-> w.mat[x], files |-> w.files[x], docfile |-> w.docfile[x], bak |-> w.bak[x],
     doc |-> DocVal(w.heap, x)]
\* the selected jobs the last call has neither cloned nor merged
Unprocessed == Selected \ (last.cloned \cup last.synced)
\* the clone-or-merge of job j alone, on the state before the last call
Alone(j) ==
    CloneOrSync(Result([last.pre EXCEPT !.sk = {}], "none"), [opt EXCEPT !.fresh = FALSE],
                <<last.src[1], j>>, <<last.dst[1], j>>)

\* C23: when a sequential sync_projects raises, every job before the first
\* job that was not cloned or merged is as its own clone-or-merge leaves
\* it, and every job after that one is as it was before the call.
C23_SequentialAbort ==
    Made("sync_projects") /\ opt.parallel = 0 /\ last.err # "none" =>
        \A f \in Unprocessed :
            (\A i \in Unprocessed : f <= i) =>
                \A j \in 1..NJobs :
                    /\ j < f /\ j \in Selected =>
                          /\ Alone(j).err = "none"
                          /\ JobOf(World, <<"D", j>>) = JobOf(Alone(j).w, <<"D", j>>)
                    /\ j > f => JobOf(World, <<"D", j>>) = JobOf(last.pre, <<"D", j>>)
\* job 1 was merged and has the source's file, job 2 raised a file conflict
C23_Witness ==
    /\ Made("sync_projects") /\ opt.parallel = 0 /\ ~opt.dry
    /\ last.err = "FileSyncConflict" /\ last.synced = {1} /\ Unprocessed = {2}
    /\ files[<<"D", 1>>][<<"f">>] = File(1, NowTime)
    /\ last.pre.files[<<"D", 1>>][<<"f">>] = NoFile
\* job 1 raised a document conflict; the source's job 2, which the
\* destination lacks, is not cloned
C23_WitnessFirst ==
    /\ Made("sync_projects") /\ opt.parallel = 0 /\ ~opt.dry
    /\ last.err = "DocumentSyncConflict" /\ Unprocessed = {1, 2}
    /\ ~mat[<<"D", 2>>]

\* C24: in parallel mode the document merge of a job, made by ByKey with
\* no key-strategy, raises DocumentSyncConflict exactly when the job's own
\* two documents conflict, and the error carries the conflicting key-paths
\* of these two documents, whatever the other workers do.
C24_MergeDependsOnOwnDocuments ==
    \A j \in par.jobs :
        /\ opt.ks.kind = "none"
        /\ par.tk[j].st \in {"ok", "failed"} /\ par.tk[j].ret = 2
        /\ par.tk[j].err \in {"none", "DocumentSyncConflict"}
        => /\ (par.tk[j].err = "DocumentSyncConflict")
                  = (Conflicts(par.pre.heap, <<par.src, j>>, <<"D", j>>) # {})
           /\ par.tk[j].keys = Conflicts(par.pre.heap, <<par.src, j>>, <<"D", j>>)

\* the destination project of world w
Destination(w) ==
    [jobs |-> [j \in 1..NJobs |-> JobOf(w, <<"D", j>>)],
     doc |-> DocVal(w.heap, <<"D", 0>>), docfile |-> w.docfile[<<"D", 0>>]]
\* the last call has ended as seq, the outcome of a sequential call
AsSequential(seq) ==
    last.err = "none" \/ seq.err = "none" =>
        /\ last.err = seq.err
        /\ last.cloned = seq.cloned /\ last.synced = seq.synced
        /\ Destination(World) = Destination(seq.w)

\* C25: a parallel sync_projects, with either pool size and however the
\* workers interleave, returns normally exactly when the sequential call
\* on the same projects does, and then with the same destination and the
\* same cloned and merged jobs.
C25_ParallelAsSequential ==
    Made("sync_projects") /\ opt.parallel > 0 =>
        AsSequential(SyncProjects(last.pre, [opt EXCEPT !.parallel = 0], last.src[1], "D"))
\* two workers have cloned job 1 and merged job 2, whose file and document
\* key came from the source
C25_Witness ==
    /\ Made("sync_projects") /\ opt.parallel = 2 /\ ~opt.dry /\ last.err = "none"
    /\ last.cloned = {1} /\ last.synced = {2}
    /\ ~last.pre.mat[<<"D", 1>>] /\ files[<<"D", 1>>][<<"f">>].t = "file"
    /\ last.pre.files[<<"D", 2>>][<<"f">>] = NoFile /\ files[<<"D", 2>>][<<"f">>].t = "file"
    /\ DocLen(last.pre.heap, <<"D", 2>>) = 0 /\ DocLen(heap, <<"D", 2>>) = 1

\* the last call made with `lambda key: pat in key` in place of the
\* regular expression pat
WithFunction ==
    SyncJobs(last.pre, [opt EXCEPT !.ks.kind = "contains"], last.src, last.dst)
SameOutcome(r) ==
    /\ last.err = r.err
    /\ DocVal(heap, last.dst) = DocVal(r.w.heap, last.dst)
    /\ last.skipped = r.skipped

\* C26: ByKey with the regular expression pat as key-strategy overwrites
\* and skips the same conflicting keys as with `lambda key: pat in key`:
\* the destination document and the skipped keys are the same.
C26_RegexAsContains ==
    ByKeyMade(TRUE) /\ opt.ks.kind = "regex" => SameOutcome(WithFunction)

\* the document files of the last call's jobs differ
DocumentsDiffer ==
    /\ last.pre.docfile[last.src] /\ last.pre.docfile[last.dst]
    /\ DocVal(last.pre.heap, last.src) # DocVal(last.pre.heap, last.dst)
DocumentKept == DocVal(heap, last.dst) = DocVal(last.pre.heap, last.dst)
DocumentReplaced == DocVal(heap, last.dst) = DocVal(last.pre.heap, last.src)

\* C27: sync_jobs with DocSync.COPY visits no document key and takes no
\* document backup; it copies the source's document file when the
\* destination has none, raises FileSyncConflict when the two differ and
\* no file strategy is set, and with a strategy replaces the destination's
\* exactly when the strategy returns true.
C27_CopyTreatsDocumentAsFile ==
    Made("sync_jobs") /\ opt.doc = "COPY" /\ last.pre.mat[last.src] =>
        /\ last.vis = {} /\ last.asked = {} /\ last.skipped = {} /\ last.bcopies = 0
        /\ last.err \in {"none", "FileSyncConflict"}
        /\ bak[last.dst] = last.pre.bak[last.dst]
        /\ last.pre.docfile[last.src] /\ ~last.pre.docfile[last.dst] =>
              /\ <<FN_DOCUMENT>> \in last.copied
              /\ ~opt.dry => docfile[last.dst] /\ DocumentReplaced
        /\ DocumentsDiffer /\ opt.strategy = "none" =>
              last.err = "FileSyncConflict" /\ DocumentKept
        /\ DocumentsDiffer /\ opt.strategy # "none" /\ ~opt.dry =>
              /\ last.err = "none"
              /\ <<FN_DOCUMENT>> \in last.fasked
              /\ IF Strategy(last.pre, opt, last.src, last.dst, <<FN_DOCUMENT>>)
                 THEN DocumentReplaced /\ <<FN_DOCUMENT>> \in last.copied
                 ELSE DocumentKept /\ <<FN_DOCUMENT>> \notin last.copied
\* with no file strategy, the document file is copied into a destination
\* job that had none
C27_Witness ==
    /\ Made("sync_jobs") /\ opt.doc = "COPY" /\ ~opt.dry /\ opt.strategy = "none"
    /\ ~last.pre.docfile[last.dst] /\ docfile[last.dst]
    /\ <<FN_DOCUMENT>> \in last.copied /\ last.err = "none"
    /\ DocLen(heap, last.dst) > 0 /\ DocumentReplaced
\* with no file strategy, differing document files raise FileSyncConflict
C27_WitnessConflict ==
    /\ Made("sync_jobs") /\ opt.doc = "COPY" /\ ~opt.dry /\ opt.strategy = "none"
    /\ DocumentsDiffer /\ last.err = "FileSyncConflict"
    /\ last.epath = <<FN_DOCUMENT>>

\* C28: FileSync.Ask prompts at most once for a file name, and all the
\* decisions it returns for one name are the same, in whichever job of the
\* project sync the name comes up.
C28_AskPromptsOncePerName ==
    \A fn \in AskNames :
        /\ ask.prompts[fn] <= 1
        /\ ~(<<fn, TRUE>> \in ask.said /\ <<fn, FALSE>> \in ask.said)

\* C29: the key-path ByKey hands to the key-strategy is the full path of
\* the conflicting key from the document root, and a conflict at depth
\* three that is not overwritten is recorded under its full path.
C29_FullKeyPath ==
    Made("sync_jobs") /\ opt.doc = "bykey" /\ last.pre.mat[last.src]
        /\ last.err \in {"none", "DocumentSyncConflict"} =>
        /\ \A a \in last.asked : a[2] = a[1]
        /\ opt.ks.kind = "none" =>
              \A kp \in Conflicts(last.pre.heap, last.src, last.dst) :
                  Len(kp) >= 3 => kp \in last.skipped

\* C30: a top-level key that both documents hold with differing values
\* that are not both mappings is recorded as a conflict when there is no
\* key-strategy or the strategy returns false, and is overwritten with the
\* source's value when it returns true; ByKey raises nothing but
\* DocumentSyncConflict.
C30_MixedPairsConflictOrOverwrite ==
    Made("sync_jobs") /\ opt.doc = "bykey" /\ last.pre.mat[last.src] /\ ~opt.dry =>
        /\ last.err \in {"none", "DocumentSyncConflict"}
        /\ \A kp \in Conflicts(last.pre.heap, last.src, last.dst) :
              Len(kp) = 1 =>
                  IF opt.ks.kind # "none" /\ KeyStrategy(opt.ks, kp)
                  THEN SubVal(heap, last.dst, kp) = SubVal(last.pre.heap, last.src, kp)
                  ELSE /\ kp \in last.skipped
                       /\ SubVal(heap, last.dst, kp) = SubVal(last.pre.heap, last.dst, kp)

\* the last call with its document synchronization left out
WalkAlone ==
    SyncJobs(last.pre, [opt EXCEPT !.doc = IF @ = "COPY" THEN @ ELSE "NO_SYNC"],
             last.src, last.dst)
\* no key of the documents was visited and no document backup was taken
MergeNotStarted ==
    last.vis = {} /\ last.asked = {} /\ last.skipped = {} /\ last.bcopies = 0
\* the document synchronization of the last call raised
MergeRaised ==
    opt.doc \in {"bykey", "update"} /\ last.err \notin {"none", "FileSyncConflict"}
\* the destination workspace is as the walk r left it
FilesAsWalked(r) ==
    /\ files[last.dst] = r.w.files[last.dst]
    /\ mat[last.dst] = r.w.mat[last.dst]
    /\ last.copied = r.copied

\* C31 as stated: when the file walk of sync_jobs raises FileSyncConflict
\* the document merge is not started and the destination document is
\* unchanged; when the document merge raises, the file copies of the call
\* are made and stay.
C31_FilesBeforeDocument ==
    Made("sync_jobs") /\ last.pre.mat[last.src] =>
        /\ last.err = "FileSyncConflict" => MergeNotStarted /\ DocumentKept
        /\ MergeRaised => FilesAsWalked(WalkAlone)

\* C31: when the file walk of sync_jobs raises FileSyncConflict the
\* document merge is not started, and the destination document is
\* unchanged unless doc_sync is DocSync.COPY and the walk has copied the
\* source's document file into a destination that had none; when the
\* document merge raises, the file copies of the call are made and stay.
C31_FilesBeforeMerge ==
    Made("sync_jobs") /\ last.pre.mat[last.src] =>
        /\ last.err = "FileSyncConflict" =>
              /\ MergeNotStarted
              /\ IF opt.doc = "COPY"
                 THEN DocumentKept \/ (~last.pre.docfile[last.dst] /\ DocumentReplaced)
                 ELSE DocumentKept /\ docfile[last.dst] = last.pre.docfile[last.dst]
        /\ MergeRaised => FilesAsWalked(WalkAlone)
\* a file conflict stopped a call whose document merge would have added
\* the source's key to the empty destination document
C31_Witness ==
    /\ Made("sync_jobs") /\ ~opt.dry /\ opt.doc = "bykey"
    /\ last.err = "FileSyncConflict"
    /\ DocLen(heap, last.src) > 0 /\ DocLen(heap, last.dst) = 0
\* the document merge raised after the source's file had replaced the
\* destination's
C31_WitnessMerge ==
    /\ Made("sync_jobs") /\ ~opt.dry /\ opt.doc = "bykey"
    /\ last.err = "DocumentSyncConflict" /\ <<"f">> \in last.copied
    /\ last.pre.files[last.dst][<<"f">>].t = "file"
    /\ files[last.dst][<<"f">>].c = last.pre.files[last.src][<<"f">>].c
    /\ files[last.dst][<<"f">>].c # last.pre.files[last.dst][<<"f">>].c

\* the directory in which the last call's file conflict was detected
ConflictDir == SubSeq(last.epath, 1, Len(last.epath) - 1)
\* the walk has copied path q, an entry that only the source had
CopiedFromSource(q) ==
    /\ files[last.dst][q].t = last.pre.files[last.src][q].t
    /\ files[last.dst][q].c = last.pre.files[last.src][q].c
\* q lies in a directory of both workspaces that the walk, stopped in
\* ConflictDir, has not entered
NotYetVisited(q) ==
    /\ Len(q) > 1 /\ ConflictDir = <<>>
    /\ last.pre.files[last.src][<<q[1]>>].t = "dir"
    /\ last.pre.files[last.dst][<<q[1]>>].t = "dir"

\* C32: when the file walk of a non-dry-run sync_jobs raises
\* FileSyncConflict, every non-excluded entry that only the source has in
\* the directory of the conflict has been copied and stays copied, and no
\* entry of a subdirectory not yet visited has been copied.
C32_NoRollbackInWalk ==
    Made("sync_jobs") /\ ~opt.dry /\ last.err = "FileSyncConflict" =>
        \A q \in FPaths :
            /\ SubSeq(q, 1, Len(q) - 1) = ConflictDir
                  /\ SourceOnly(last.pre, last.src, last.dst, q)
                  /\ ~Excluded(opt, q[Len(q)])
               => CopiedFromSource(q) /\ q \in last.copied
            /\ NotYetVisited(q) =>
                  /\ files[last.dst][q] = last.pre.files[last.dst][q]
                  /\ q \notin last.copied

\* the merge of the project documents of the last call raised
\* DocumentSyncConflict
ProjectMergeRaised ==
    /\ Made("sync_projects") /\ last.err = "DocumentSyncConflict"
    /\ ProjectPrologue(last.pre, opt, last.src[1], last.dst[1]).err = "DocumentSyncConflict"

\* C33: when the merge of the project documents raises
\* DocumentSyncConflict, the destination project document equals its value
\* before the call and no job has been cloned or merged.
C33_ProjectDocumentFirst ==
    ProjectMergeRaised =>
        /\ DocVal(heap, <<"D", 0>>) = DocVal(last.pre.heap, <<"D", 0>>)
        /\ last.cloned = {} /\ last.synced = {}
        /\ \A j \in 1..NJobs : JobOf(World, <<"D", j>>) = JobOf(last.pre, <<"D", j>>)

\* C34: sync_jobs from a source job that is not part of its project
\* returns normally and changes nothing: the destination job is not
\* created, no file is copied, no document key is visited and no document
\* backup is taken.
C34_AbsentSourceIsNoOp ==
    Made("sync_jobs") /\ last.src # last.dst /\ ~last.pre.mat[last.src] =>
        /\ last.err = "none"
        /\ World = last.pre
        /\ last.copied = {} /\ last.fasked = {}
        /\ MergeNotStarted
\* a call that is not a dry run left a destination job that does not exist
\* as it was
C34_Witness ==
    /\ Made("sync_jobs") /\ ~opt.dry /\ opt.doc = "bykey"
    /\ ~last.pre.mat[last.src] /\ ~last.pre.mat[last.dst]
    /\ ~mat[last.dst] /\ last.err = "none"
\* a call left a destination job with files and a document as it was
C34_WitnessPresent ==
    /\ Made("sync_jobs") /\ ~opt.dry /\ opt.doc = "bykey"
    /\ ~last.pre.mat[last.src] /\ mat[last.dst]
    /\ files[last.dst][<<"f">>].t = "file" /\ DocLen(heap, last.dst) > 0
    /\ last.err = "none"

\* the backup under way is a duplicate of a non-empty document file, made
\* by a call that is no dry run
FileBackup == guard.mode = "file" /\ ~opt.dry
\* heap h holds the guarded document as it was on entry
AsOnEntry(h) == DocVal(h, guard.doc) = DocVal(guard.pre.heap, guard.doc)

\* C35: for a non-empty file-backed document and no dry run, the duplicate
\* of the document file exists, with the file's content on entry, before
\* the guarded region runs and while it runs; once the region is left,
\* normally or by an exception, the duplicate is gone, and after an
\* exception the document file holds what it held on entry.
C35_BackupReleasedAndRestored ==
    FileBackup =>
        /\ guard.pc = "region" =>
              /\ bak[guard.doc] /\ guard.dup.tag = "copy"
              /\ AsOnEntry(guard.dup.h) /\ AsOnEntry(heap)
        /\ guard.pc = "exit" => bak[guard.doc] /\ AsOnEntry(guard.dup.h)
        /\ guard.pc = "done" => ~bak[guard.doc] /\ guard.dup = NoDup
        /\ guard.pc = "done" /\ last.err # "none" =>
              AsOnEntry(heap) /\ docfile[guard.doc]
\* the region wrote a key into the document before it raised; the document
\* is restored and the duplicate removed
C35_Witness ==
    /\ FileBackup /\ guard.pc = "done"
    /\ last.err = "DocumentSyncConflict"
    /\ ~AsOnEntry(guard.st.h) /\ AsOnEntry(heap)
    /\ ~bak[guard.doc]
\* the region returned normally with a key added; the duplicate is removed
C35_WitnessReleased ==
    /\ FileBackup /\ guard.pc = "done"
    /\ last.err = "none" /\ ~AsOnEntry(heap)
    /\ ~bak[guard.doc]

\* C36: when a file backup is asked for and the duplicate path + '~'
\* exists already, RuntimeError is raised before the guarded region runs,
\* and the document file and the old duplicate are left as they were.
C36_StaleDuplicateRefuses ==
    guard.pc # "idle" /\ guard.pre.bak[guard.doc]
        /\ ~InMemoryBackup(guard.pre, opt, guard.doc) =>
        /\ guard.pc = "done" /\ guard.mode = "refused"
        /\ last.err = "RuntimeError"
        /\ MergeNotStarted
        /\ World = guard.pre
        /\ bak[guard.doc] /\ guard.dup = StaleDup
\* the backup was refused in a call whose merge would have changed the
\* destination document
C36_Witness ==
    /\ guard.pc = "done" /\ guard.mode = "refused" /\ ~opt.dry
    /\ last.err = "RuntimeError" /\ bak[guard.doc]
    /\ opt.ks.kind = "true"
    /\ Conflicts(heap, guard.src, guard.doc) # {}

\* q is a file in both workspaces before the last call, in a directory the
\* walk goes through, with a name that is not excluded
CommonFile(q) ==
    /\ last.pre.mat[last.src] /\ last.pre.mat[last.dst]
    /\ last.pre.files[last.src][q].t = "file" /\ last.pre.files[last.dst][q].t = "file"
    /\ Len(q) > 1 => /\ last.pre.files[last.src][<<q[1]>>].t = "dir"
                     /\ last.pre.files[last.dst][<<q[1]>>].t = "dir"
    /\ ~Excluded(opt, q[Len(q)])
ContentDiffers(q) == last.pre.files[last.src][q].c # last.pre.files[last.dst][q].c
SignatureEqual(q) == last.pre.files[last.src][q].m = last.pre.files[last.dst][q].m
\* the common files the comparison is to tell apart: by content with deep,
\* by content after a look at the signatures without
ToTellApart ==
    {q \in FPaths : CommonFile(q) /\ ContentDiffers(q) /\ (opt.deep \/ ~SignatureEqual(q))}

C37_WitnessDeep ==
    /\ Made("sync_jobs") /\ ~opt.dry /\ opt.deep /\ opt.strategy = "none"
    /\ CommonFile(<<"d", "f">>) /\ ContentDiffers(<<"d", "f">>)
    /\ SignatureEqual(<<"d", "f">>)
    /\ last.err = "FileSyncConflict" /\ last.epath = <<"d", "f">>

\* the error of the last call is the one the task of job f raised
ErrorOf(f) ==
    /\ last.err = par.tk[f].err
    /\ last.efile = par.tk[f].efile /\ last.epath = par.tk[f].epath

\* C38: the error a parallel sync_projects raises for its jobs is that of
\* the first job, in the order of the job list, whose task failed,
\* whichever worker finished first.
C38_FirstErrorInOrder ==
    Made("sync_projects") /\ opt.parallel > 0 /\ last.err # "none" /\ par.jobs # {} =>
        \E f \in par.jobs :
            /\ par.tk[f].st = "failed"
            /\ \A i \in par.jobs : i < f => par.tk[i].st = "ok"
            /\ ErrorOf(f)
\* two workers: job 1 raised a file conflict, job 2 a document conflict,
\* and the call raised the file conflict
C38_Witness ==
    /\ Made("sync_projects") /\ opt.parallel = 2 /\ ~opt.dry
    /\ par.tk[1].st = "failed" /\ par.tk[1].err = "FileSyncConflict"
    /\ par.tk[2].st = "failed" /\ par.tk[2].err = "DocumentSyncConflict"
    /\ last.err = "FileSyncConflict"

\* C39: one DocSync.ByKey object without key-strategy, used for several
\* sync_jobs calls in sequence, raises DocumentSyncConflict in a call only
\* if that call's own two documents conflict at some key-path, and the
\* error carries key-paths of that call only.
C39_ReusedObjectJudgesOwnCall ==
    ByKeyMade(FALSE) /\ ~opt.fresh /\ last.err = "DocumentSyncConflict" =>
        /\ Conflicts(last.pre.heap, last.src, last.dst) # {}
        /\ last.keys \subseteq Conflicts(last.pre.heap, last.src, last.dst)

\* C40: after a non-dry-run sync_jobs with strategy `always`, no user
\* excludes and deep comparison that returns normally, every file of the
\* source workspace is in the destination at the same relative path with
\* the same content, also where one side holds a directory and the other a
\* file of the same name.
C40_AlwaysMirrorsSource ==
    /\ Made("sync_jobs") /\ ~opt.dry /\ opt.strategy = "always" /\ opt.exclude = {}
    /\ opt.deep /\ last.err = "none"
    => \A q \in FPaths :
          last.pre.files[last.src][q].t = "file" =>
              /\ files[last.dst][q].t = "file"
              /\ files[last.dst][q].c = last.pre.files[last.src][q].c

====
